---- MODULE Spec2Model ----
(***************************************************************************)
(* A model of the mybestself conversation core:                            *)
(*   - the agents' response parsers (regular expressions over the raw LLM  *)
(*     reply) and cleanResponseForUser,                                    *)
(*   - the ConversationManager (intent analysis, agent dispatch, context), *)
(*   - the AuthAwarePersonaService (persona list, local storage, cloud),   *)
(*   - the ChatService's message persistence (pending queue and retries),  *)
(*   - the setup page's debounced persona edits and the goals page's       *)
(*     handling of goal actions.                                           *)
(*                                                                         *)
(* Text is a sequence of tokens.  A token is a grammar keyword such as     *)
(* "PERSONA_CONFIRMED:", one of the delimiters "|", "+", a blank " ", a    *)
(* line break "\n", or a word; Len(token) is its number of characters.     *)
(***************************************************************************)
EXTENDS Integers, Sequences, FiniteSets, TLC

VARIABLES
    aiResponse,      \* the raw LLM reply handed to processResponse
    agentResult,     \* the AgentResult of the last processResponse, or NoResult
    personas,        \* AuthAwarePersonaService.personas
    user,            \* AuthAwarePersonaService.user
    pendingChanges,  \* AuthAwarePersonaService.pendingChanges
    localStore,      \* localStorage['personas_local']
    cloud,           \* the backend's personas of the user
    nextId,          \* the next fresh id (persona-<time>-<random>, backend ids)
    clock,           \* Date.now(), one tick per operation
    psResult,        \* the last operation of the persona service and its result
    context,         \* ConversationManager.context
    inFlight,        \* the processMessage calls that await the LLM, oldest first
    cmCalls,         \* the number of calls of the manager's methods so far
    cmDone,          \* the number of processMessage calls that have settled
    lastStart,       \* the last processMessage call: its message and its routing
    cmResult,        \* how the last settled processMessage call settled
    agents,          \* ConversationManager.agents: the agent types registered
    currentConversationId, \* ChatService.currentConversationId
    isOnline,        \* ChatService.isOnline
    pendingMessages, \* ChatService.pendingMessages, as message ids
    backendUp,       \* whether a request to the backend succeeds now
    posted,          \* the messages the backend has accepted, in its order
    retryTimers,     \* the scheduled retryPendingMessages timers
    probing,         \* the retryPendingMessages runs that await their probe
    draining,        \* the messagesToSave of the runs that await a POST
    sends,           \* the sendMessage calls in flight
    nextMsg,         \* the number of the next message created
    chatResult,      \* the last sendMessage call that returned
    convLog,         \* per message the conversation it was created in, the one
                     \* its POST in flight goes to and the one it was accepted in
    timeNow,         \* the time, in ticks of half the quiet interval
    timeouts,        \* the browser's scheduled save timers
    updateTimeouts,  \* SetupIdentityPage updateTimeouts.current: key -> timer id
    saving,          \* the timer callbacks that await updatePersona
    updateCalls,     \* the updatePersona calls the setup page has made
    edited,          \* per (persona, field) the value on the page and when it was typed
    nextTimer,       \* the id of the next timer
    goals,           \* goals page: the goals state
    error,           \* goals page: the error state
    goalRequests,    \* the goal requests the goals page has sent to the API
    handler,         \* goals page: the sendMessage handler that is running
    handled,         \* the goal actions handled so far, each with what was done
    nextGoalId       \* the id of the next goal the backend creates

parseVars == <<aiResponse, agentResult>>

psVars == <<personas, user, pendingChanges, localStore, cloud, nextId, clock, psResult>>

cmVars == <<context, inFlight, cmCalls, cmDone, lastStart, cmResult, agents>>

chatVars == <<currentConversationId, isOnline, pendingMessages, backendUp, posted,
              retryTimers, probing, draining, sends, nextMsg, chatResult, convLog>>

dbVars == <<timeNow, timeouts, updateTimeouts, saving, updateCalls, edited, nextTimer>>

gpVars == <<goals, error, goalRequests, handler, handled, nextGoalId>>

uiVars == <<dbVars, gpVars>>

vars == <<aiResponse, agentResult, personas, user, pendingChanges, localStore,
          cloud, nextId, clock, psResult, context, inFlight, cmCalls, cmDone,
          lastStart, cmResult, agents, currentConversationId, isOnline,
          pendingMessages, backendUp, posted, retryTimers, probing, draining,
          sends, nextMsg, chatResult, convLog, timeNow, timeouts, updateTimeouts, saving,
          updateCalls, edited, nextTimer, goals, error, goalRequests, handler,
          handled, nextGoalId>>

(***************************************************************************)
(* Text helpers                                                            *)
(***************************************************************************)
NL == "\n"

SetMin(S) == CHOOSE x \in S : \A y \in S : x <= y

SetMax(S) == CHOOSE x \in S : \A y \in S : x >= y

Min2(a, b) == IF a <= b THEN a ELSE b

\* the least element of C, or dflt when C is empty
MinOr(C, dflt) == IF C = {} THEN dflt ELSE SetMin(C)

\* the regular expressions' \s
IsWS(t) == t \in {" ", NL}

\* the i flag of the regular expressions: keywords are compared case-folded
ToUpper(t) ==
    CASE t = "persona_confirmed:" -> "PERSONA_CONFIRMED:"
      [] t = "refined_persona:" -> "REFINED_PERSONA:"
      [] t = "goal_confirmed:" -> "GOAL_CONFIRMED:"
      [] t = "goal_updated:" -> "GOAL_UPDATED:"
      [] t = "transition_to_goals:" -> "TRANSITION_TO_GOALS:"
      [] t = "delete_persona:" -> "DELETE_PERSONA:"
      [] t = "merge_personas:" -> "MERGE_PERSONAS:"
      [] OTHER -> t

KwAt(s, i, kw) == i <= Len(s) /\ ToUpper(s[i]) = kw

\* first index >= i that holds token t, Len(s)+1 when there is none
FirstTok(s, i, t) == MinOr({k \in i..Len(s) : s[k] = t}, Len(s) + 1)

\* first index >= i that holds no white space, Len(s)+1 when there is none
SkipWS(s, i) == MinOr({k \in i..Len(s) : ~IsWS(s[k])}, Len(s) + 1)

\* g between the first and the last of its indices C
Between(g, C) == IF C = {} THEN <<>> ELSE SubSeq(g, SetMin(C), SetMax(C))

\* String.prototype.trim
Trim(g) == Between(g, {k \in 1..Len(g) : ~IsWS(g[k])})

RECURSIVE CharLen(_)
\* String.prototype.length of a text
CharLen(g) == IF g = <<>> THEN 0 ELSE Len(Head(g)) + CharLen(Tail(g))

(***************************************************************************)
(* Regular-expression pieces, as the backtracking matcher resolves them.   *)
(* A value that is used more than once is handed on as a parameter.        *)
(***************************************************************************)
\* the group of \s*([^D]+)D from j0, given the place p of the first D
CapDelimAt(s, j0, p) ==
    [ok |-> p <= Len(s) /\ p > j0,
     from |-> Min2(SkipWS(s, j0), p - 1),
     pipe |-> p]

\* \s*([^D]+)D  starting at j0, D a delimiter ("|" or "+"): the group runs to
\* the first D; the greedy \s* gives a blank back when the group would
\* otherwise be empty.
CapDelim(s, j0, delim) == CapDelimAt(s, j0, FirstTok(s, j0, delim))

NoCap == [ok |-> FALSE, from |-> 0, to |-> 0]

\* ([^\n]+) from x: to the end of the line
CapEolAt(s, x) == [ok |-> TRUE, from |-> x, to |-> FirstTok(s, x, NL) - 1]

\* the group starts at the last of the places C where \s* may stop
CapEolFrom(s, C) == IF C = {} THEN NoCap ELSE CapEolAt(s, SetMax(C))

\* \s*([^\n]+) starting at q0 (skip = TRUE) or ([^\n]+) (skip = FALSE): the
\* greedy \s* also eats line breaks and backs off until a token that is not
\* a line break follows; the group runs to the end of that line.
CapEol(s, q0, skip) ==
    CapEolFrom(s, {c \in q0..(IF skip THEN SkipWS(s, q0) ELSE q0) :
                      c <= Len(s) /\ s[c] # NL})

\* a greedy group ([^D]+) between from and the delimiter at p
GreedyGroup(s, j, p) == SubSeq(s, j, p - 1)

\* a lazy group ([^D]+?)\s* before the delimiter at p: it stops where only
\* blanks remain
LazyGroup(s, j, p) ==
    SubSeq(s, j, SetMin({m \in j..(p - 1) : \A k \in (m + 1)..(p - 1) : IsWS(s[k])}))

RECURSIVE DelimGroups(_, _, _)
RECURSIVE DelimGroupsStep(_, _, _)
\* the chain  \s*([^D1]+)D1 \s*([^D2]+)D2 ...  starting at j0; it stops at
\* the first group that fails
DelimGroups(s, j0, delims) ==
    IF delims = <<>> THEN <<>>
    ELSE DelimGroupsStep(s, CapDelim(s, j0, Head(delims)), Tail(delims))

DelimGroupsStep(s, c, rest) ==
    IF c.ok THEN <<c>> \o DelimGroups(s, c.pipe + 1, rest) ELSE <<c>>

NoMatch == [ok |-> FALSE, groups |-> <<>>, last |-> <<>>, end |-> 0]

\* the match, given its groups cs and its last group d
MatchEol(s, cs, d) ==
    IF d.ok
    THEN [ok |-> TRUE, groups |-> cs, last |-> SubSeq(s, d.from, d.to), end |-> d.to]
    ELSE NoMatch

MatchGroups(s, i, kw, delims, cs) ==
    IF KwAt(s, i, kw) /\ Len(cs) = Len(delims) /\ \A k \in 1..Len(cs) : cs[k].ok
    THEN MatchEol(s, cs,
                  CapEol(s, IF delims = <<>> THEN i + 1 ELSE cs[Len(cs)].pipe + 1, TRUE))
    ELSE NoMatch

\* one match at index i of  KW:\s*(g1)D1\s*(g2)D2...\s*([^\n]+)
MatchAt(s, i, kw, delims) ==
    MatchGroups(s, i, kw, delims, DelimGroups(s, i + 1, delims))

RECURSIVE Scan(_, _, _, _)
RECURSIVE ScanStep(_, _, _, _, _)
\* regex.exec in a loop (g flag): the matches from index i on, left to right
Scan(s, i, kw, delims) ==
    IF i > Len(s) THEN <<>>
    ELSE ScanStep(s, i, kw, delims, MatchAt(s, i, kw, delims))

ScanStep(s, i, kw, delims, m) ==
    IF m.ok THEN <<m>> \o Scan(s, m.end + 1, kw, delims)
    ELSE Scan(s, i + 1, kw, delims)

\* the index after a stripped match that ended at e: the optional \n?
AfterLine(s, e) == IF e + 1 <= Len(s) /\ s[e + 1] = NL THEN e + 2 ELSE e + 1

\* whether /KW:\s*[^|]+\|[^\n]+/ matches at i, and where the match ends
PipeLineAt(s, i, kw, c) ==
    IF KwAt(s, i, kw) /\ c.ok THEN CapEol(s, c.pipe + 1, FALSE) ELSE NoCap

RECURSIVE StripPipeLine(_, _, _)
RECURSIVE StripStep(_, _, _, _, _)
\* replace(/KW:\s*[^|]+\|[^\n]+\n?/gi, '')  from index i on
StripPipeLine(s, i, kw) ==
    IF i > Len(s) THEN <<>>
    ELSE StripStep(s, i, kw, PipeLineAt(s, i, kw, CapDelim(s, i + 1, "|")), TRUE)

RECURSIVE StripLine(_, _, _)
\* replace(/KW:\s*[^\n]+\n?/gi, '')  from index i on
StripLine(s, i, kw) ==
    IF i > Len(s) THEN <<>>
    ELSE StripStep(s, i, kw, IF KwAt(s, i, kw) THEN CapEol(s, i + 1, TRUE) ELSE NoCap,
                   FALSE)

\* drop the match d found at i, or keep the token at i, and go on
StripStep(s, i, kw, d, piped) ==
    IF piped
    THEN IF d.ok THEN StripPipeLine(s, AfterLine(s, d.to), kw)
         ELSE <<s[i]>> \o StripPipeLine(s, i + 1, kw)
    ELSE IF d.ok THEN StripLine(s, AfterLine(s, d.to), kw)
         ELSE <<s[i]>> \o StripLine(s, i + 1, kw)

\* the k-th group of match m, greedy or lazy, trimmed
GroupG(s, m, k) == Trim(GreedyGroup(s, m.groups[k].from, m.groups[k].pipe))

GroupL(s, m, k) == Trim(LazyGroup(s, m.groups[k].from, m.groups[k].pipe))

(***************************************************************************)
(* ConversationContext                                                     *)
(***************************************************************************)
Undefined == "undefined"

\* object spread {...a, ...b}: b's keys win
Spread(a, b) ==
    [k \in (DOMAIN a) \cup (DOMAIN b) |-> IF k \in DOMAIN b THEN b[k] ELSE a[k]]

\* an object literal with no keys
EmptyObj == [k \in {} |-> Undefined]

Null == "null"

\* localStorage.getItem returning null
NoItem == [present |-> FALSE, list |-> <<>>]

NoOp == [op |-> "none"]

\* no message created, no POST in flight, no conversation started since
NoConvLog == [createdIn |-> <<>>, target |-> {}, postedIn |-> {}, started |-> 0]

\* the chat service before it is constructed
ChatIdle ==
    /\ convLog = NoConvLog
    /\ currentConversationId = Null
    /\ isOnline = TRUE
    /\ pendingMessages = <<>>
    /\ backendUp = TRUE
    /\ posted = <<>>
    /\ retryTimers = 0
    /\ probing = 0
    /\ draining = {}
    /\ sends = {}
    /\ nextMsg = 1
    /\ chatResult = NoOp

\* the (persona id, field) pairs the setup page edits
Keys == {<<"p1", "name">>, <<"p1", "northStar">>, <<"p2", "name">>}

\* the setup page before an edit
DebounceIdle ==
    /\ timeNow = 0
    /\ timeouts = {}
    /\ updateTimeouts = [k \in Keys |-> 0]
    /\ saving = {}
    /\ updateCalls = <<>>
    /\ edited = [k \in Keys |-> [value |-> 0, at |-> 0]]
    /\ nextTimer = 1

\* the page's error state: null, or a string
NoBanner == [isNull |-> TRUE]

ErrorOf(text) == [text |-> text]

\* the goals page before it has loaded
GoalsIdle ==
    /\ goals = <<>>
    /\ error = NoBanner
    /\ goalRequests = <<>>
    /\ handler = NoOp
    /\ handled = <<>>
    /\ nextGoalId = 1

UIIdle == DebounceIdle /\ GoalsIdle

\* the persona service before it is constructed
PSIdle ==
    /\ personas = <<>>
    /\ user = Null
    /\ pendingChanges = FALSE
    /\ localStore = NoItem
    /\ cloud = <<>>
    /\ nextId = 1
    /\ clock = 1
    /\ psResult = NoOp

(***************************************************************************)
(* The agents                                                              *)
(***************************************************************************)
\* BaseAgent.cleanResponseForUser
BaseClean(aiResp) ==
    Trim(StripPipeLine(
           StripLine(
             StripPipeLine(aiResp, 1, "PERSONA_CONFIRMED:"),
             1, "REFINED_NORTHSTAR:"),
           1, "VARIANT_PERSONA:"))

\* DiscoveryAgent.parsePersonaActions, EducationalAgent.parsePersonaActions
CreateActions(resp, ms) ==
    [k \in 1..Len(ms) |->
       [type |-> "create", name |-> GroupG(resp, ms[k], 1),
        northStar |-> Trim(ms[k].last)]]

ParsePersonaActions(resp) ==
    CreateActions(resp, Scan(resp, 1, "PERSONA_CONFIRMED:", <<"|">>))

\* DiscoveryAgent.parseTransitionActions, EducationalAgent.parseTransitionActions
TransitionActions(ms) ==
    [k \in 1..Len(ms) |->
       [type |-> "transition_to_goals", personaName |-> Trim(ms[k].last)]]

ParseTransitionActions(resp) ==
    TransitionActions(Scan(resp, 1, "TRANSITION_TO_GOALS:", <<>>))

\* DiscoveryAgent.processResponse
DiscoveryProcessResponse(aiResp, ctx, now) ==
    [userResponse |-> BaseClean(aiResp),
     personaActions |-> ParsePersonaActions(aiResp),
     goalActions |-> <<>>,
     transitionActions |-> ParseTransitionActions(aiResp),
     contextUpdates |-> EmptyObj]

\* EducationalAgent.processResponse
EducationalProcessResponse(aiResp, ctx, now) ==
    [userResponse |-> BaseClean(aiResp),
     personaActions |-> ParsePersonaActions(aiResp),
     goalActions |-> <<>>,
     transitionActions |-> ParseTransitionActions(aiResp),
     contextUpdates |->
        [temporaryState |->
           Spread(ctx.temporaryState, [educationalTopics |-> "topics"])]]

\* RefinementAgent.parseRefinementActions
\* what each match of the expression holds: personaName and northStar
RefinedCandidates(resp, ms) ==
    [k \in 1..Len(ms) |->
       [type |-> "update", name |-> GroupL(resp, ms[k], 1),
        northStar |-> Trim(ms[k].last)]]

\* if (personaName && northStar && northStar.length > 10)
IsMeaningful(a) == a.name # <<>> /\ a.northStar # <<>> /\ CharLen(a.northStar) > 10

ParseRefinementActions(resp) ==
    SelectSeq(RefinedCandidates(resp, Scan(resp, 1, "REFINED_PERSONA:", <<"|">>)),
              IsMeaningful)

\* RefinementAgent.cleanResponseForUser
RefinementClean(aiResp) ==
    Trim(StripPipeLine(BaseClean(aiResp), 1, "REFINED_PERSONA:"))

\* RefinementAgent.processResponse
RefinementProcessResponse(aiResp, ctx, now) ==
    [userResponse |-> RefinementClean(aiResp),
     personaActions |-> ParseRefinementActions(aiResp),
     goalActions |-> <<>>,
     transitionActions |-> <<>>,
     contextUpdates |->
        [temporaryState |->
           Spread(ctx.temporaryState, [lastRefinementSession |-> now])]]

RECURSIVE Flatten(_)
Flatten(ss) == IF ss = <<>> THEN <<>> ELSE Head(ss) \o Flatten(Tail(ss))

\* ManagementAgent.parseManagementActions
DeleteActions(resp, ds) ==
    [k \in 1..Len(ds) |-> [type |-> "delete", name |-> GroupL(resp, ds[k], 1)]]

\* update the first persona with the merged name, delete the second
MergeActions(resp, ms) ==
    Flatten([k \in 1..Len(ms) |->
       << [type |-> "update", name |-> GroupL(resp, ms[k], 3),
           northStar |-> Trim(ms[k].last),
           previousName |-> GroupL(resp, ms[k], 1)],
          [type |-> "delete", name |-> GroupL(resp, ms[k], 2)] >>])

ParseManagementActions(resp) ==
    DeleteActions(resp, Scan(resp, 1, "DELETE_PERSONA:", <<"|">>))
    \o MergeActions(resp, Scan(resp, 1, "MERGE_PERSONAS:", <<"+", "|", "|">>))

\* ManagementAgent.extractManagementFocus: the words it looks for occur, in
\* the replies of this model, only inside the two management keywords
ExtractManagementFocus(resp) ==
    IF \E k \in 1..Len(resp) : ToUpper(resp[k]) = "MERGE_PERSONAS:" THEN "merging"
    ELSE IF \E k \in 1..Len(resp) : ToUpper(resp[k]) = "DELETE_PERSONA:" THEN "cleanup"
    ELSE "overview"

\* ManagementAgent.cleanResponseForUser
ManagementClean(aiResp) ==
    Trim(StripPipeLine(
           StripPipeLine(
             StripPipeLine(BaseClean(aiResp), 1, "DELETE_PERSONA:"),
             1, "MERGE_PERSONAS:"),
           1, "PRIORITIZE_PERSONA:"))

\* ManagementAgent.processResponse
ManagementProcessResponse(aiResp, ctx, now) ==
    [userResponse |-> ManagementClean(aiResp),
     personaActions |-> ParseManagementActions(aiResp),
     goalActions |-> <<>>,
     transitionActions |-> <<>>,
     contextUpdates |->
        [temporaryState |->
           Spread(ctx.temporaryState,
                  [lastManagementSession |-> now,
                   managementFocus |-> ExtractManagementFocus(aiResp)])]]

\* GoalAgent.parseGoalActions: every GOAL_CONFIRMED first, then every GOAL_UPDATED
GoalCreateActions(resp, cs) ==
    [k \in 1..Len(cs) |->
       [type |-> "create", name |-> GroupG(resp, cs[k], 1),
        acceptanceCriteria |-> GroupG(resp, cs[k], 2),
        reviewDate |-> Trim(cs[k].last)]]

GoalUpdateActions(resp, us) ==
    [k \in 1..Len(us) |->
       [type |-> "update", originalName |-> GroupG(resp, us[k], 1),
        name |-> GroupG(resp, us[k], 2),
        acceptanceCriteria |-> GroupG(resp, us[k], 3),
        reviewDate |-> Trim(us[k].last)]]

ParseGoalActionsUpdatesFirst(resp) ==
    GoalUpdateActions(resp, Scan(resp, 1, "GOAL_UPDATED:", <<"|", "|", "|">>))
    \o GoalCreateActions(resp, Scan(resp, 1, "GOAL_CONFIRMED:", <<"|", "|">>))

ParseGoalActions(resp) ==
    GoalCreateActions(resp, Scan(resp, 1, "GOAL_CONFIRMED:", <<"|", "|">>))
    \o GoalUpdateActions(resp, Scan(resp, 1, "GOAL_UPDATED:", <<"|", "|", "|">>))

\* GoalAgent.processResponse without the spread of context.temporaryState
GoalProcessResponseNoSpread(aiResp, ctx, now) ==
    [userResponse |-> BaseClean(aiResp),
     personaActions |-> <<>>,
     goalActions |-> ParseGoalActions(aiResp),
     transitionActions |-> <<>>,
     contextUpdates |-> [temporaryState |-> [goalSettingActive |-> TRUE]]]

\* GoalAgent.processResponse (cleanResponseForUser is BaseAgent's)
GoalProcessResponse(aiResp, ctx, now) ==
    [userResponse |-> BaseClean(aiResp),
     personaActions |-> <<>>,
     goalActions |-> ParseGoalActions(aiResp),
     transitionActions |-> <<>>,
     contextUpdates |->
        [temporaryState |->
           Spread(ctx.temporaryState, [goalSettingActive |-> TRUE])]]

\* AgentType
AgentTypes == {"educational", "discovery", "refinement", "management", "goal"}

\* BaseAgent.processResponse, dispatched on the agent's type
ProcessResponse(type, aiResp, ctx, now) ==
    CASE type = "educational" -> EducationalProcessResponse(aiResp, ctx, now)
      [] type = "discovery" -> DiscoveryProcessResponse(aiResp, ctx, now)
      [] type = "refinement" -> RefinementProcessResponse(aiResp, ctx, now)
      [] type = "management" -> ManagementProcessResponse(aiResp, ctx, now)
      [] type = "goal" -> GoalProcessResponse(aiResp, ctx, now)

(***************************************************************************)
(* Replies of the LLM                                                      *)
(***************************************************************************)
\* the most lines of a reply
MaxLines == 2

TenChars == "abcdefghij"

\* The lines a reply is made of: free text, well-formed action lines of every
\* kind (some with a lower-case keyword, some without blanks, one of the
\* rename form), and lines on which the model broke the grammar (no "|", or
\* nothing after it).
LineShapes ==
    { <<>>,
      <<"a">>,
      <<"a", " ", "|", " ", "b">>,
      <<"PERSONA_CONFIRMED:", " ", "a", " ", "|", " ", "b">>,
      <<"persona_confirmed:", "b", "|", "a", " ">>,
      <<"PERSONA_CONFIRMED:", " ", "a", " ", "(was:", " ", "b", ")", " ", "|", " ", "b">>,
      <<"PERSONA_CONFIRMED:", " ", "a">>,
      <<"PERSONA_CONFIRMED:", " ", "a", " ", "|">>,
      <<"REFINED_PERSONA:", " ", "a", " ", "|", " ", TenChars, " ">>,
      <<"REFINED_PERSONA:", "b", "|", TenChars, "a">>,
      <<"refined_persona:", " ", "a", "|", "b", " ", TenChars>>,
      <<"REFINED_PERSONA:", " ", "a">>,
      <<"GOAL_CONFIRMED:", " ", "a", " ", "|", " ", "b", " ", "|", " ", "2025-01-01">>,
      <<"GOAL_UPDATED:", " ", "a", "|", "b", "|", "a", "|", "2025-01-01">>,
      <<"TRANSITION_TO_GOALS:", " ", "a">>,
      <<"DELETE_PERSONA:", " ", "a", " ", "|", " ", "b">>,
      <<"MERGE_PERSONAS:", " ", "a", " ", "+", " ", "b", " ", "|", " ", "a", " ", "|", " ", "b">> }

RECURSIVE JoinLines(_)
\* lines.join('\n')
JoinLines(ls) ==
    IF ls = <<>> THEN <<>>
    ELSE IF Len(ls) = 1 THEN ls[1]
    ELSE ls[1] \o <<NL>> \o JoinLines(Tail(ls))

Replies ==
    UNION { {JoinLines(ls) : ls \in [1..n -> LineShapes]} : n \in 0..MaxLines }

RECURSIVE SplitLines(_)
\* text.split('\n')
SplitLines(s) ==
    IF FirstTok(s, 1, NL) > Len(s) THEN <<s>>
    ELSE <<SubSeq(s, 1, FirstTok(s, 1, NL) - 1)>>
         \o SplitLines(SubSeq(s, FirstTok(s, 1, NL) + 1, Len(s)))

(***************************************************************************)
(* Specification SpecParse: processResponse of every agent on every reply  *)
(***************************************************************************)
NoResult == [agent |-> "none"]

\* the context a fresh ConversationManager holds (its constructor)
InitialContext ==
    [currentAgentType |-> "educational",
     targetPersonaId |-> Undefined,
     targetPersona |-> Undefined,
     temporaryState |-> EmptyObj,
     conversationHistory |-> <<>>,
     lastIntentConfidence |-> 0]

\* a ConversationManager right after its constructor
CMIdle ==
    /\ context = InitialContext
    /\ inFlight = <<>>
    /\ cmCalls = 0
    /\ cmDone = 0
    /\ lastStart = NoOp
    /\ cmResult = NoOp
    /\ agents = AgentTypes

InitParse ==
    /\ aiResponse \in Replies
    /\ agentResult = NoResult
    /\ PSIdle
    /\ ChatIdle
    /\ UIIdle
    /\ CMIdle

\* agent.processResponse(aiResponse, context) of the agent of type t
RunAgent(t) ==
    /\ agentResult' = [agent |-> t,
                       result |-> ProcessResponse(t, aiResponse, InitialContext, 0)]
    /\ agentResult' # agentResult
    /\ UNCHANGED aiResponse
    /\ UNCHANGED psVars
    /\ UNCHANGED cmVars
    /\ UNCHANGED chatVars
    /\ UNCHANGED uiVars

EducationalRun == RunAgent("educational")

DiscoveryRun == RunAgent("discovery")

RefinementRun == RunAgent("refinement")

ManagementRun == RunAgent("management")

GoalRun == RunAgent("goal")

NextParse ==
    \/ EducationalRun
    \/ DiscoveryRun
    \/ RefinementRun
    \/ ManagementRun
    \/ GoalRun

SpecParse == InitParse /\ [][NextParse]_vars

(***************************************************************************)
(* What the action grammar says of a reply, line by line                   *)
(***************************************************************************)
\* a line  KW: X | Y  with X and Y not blank; Y is the rest of the line
IsTwoFieldLine(line, kw) ==
    /\ KwAt(line, 1, kw)
    /\ FirstTok(line, 2, "|") <= Len(line)
    /\ Trim(SubSeq(line, 2, FirstTok(line, 2, "|") - 1)) # <<>>
    /\ Trim(SubSeq(line, FirstTok(line, 2, "|") + 1, Len(line))) # <<>>

LineName(line) == Trim(SubSeq(line, 2, FirstTok(line, 2, "|") - 1))

LineRest(line) == Trim(SubSeq(line, FirstTok(line, 2, "|") + 1, Len(line)))

\* the lines of s that are lines  KW: X | Y, in order
TwoFieldLines(s, kw) ==
    SelectSeq(SplitLines(s), LAMBDA line : IsTwoFieldLine(line, kw))

\* a line that opens with one of the grammar's keywords and has a field
GrammarKeywords ==
    {"PERSONA_CONFIRMED:", "REFINED_PERSONA:", "GOAL_CONFIRMED:", "GOAL_UPDATED:",
     "TRANSITION_TO_GOALS:", "DELETE_PERSONA:", "MERGE_PERSONAS:"}

IsGrammarLine(line) ==
    \E kw \in GrammarKeywords :
        /\ KwAt(line, 1, kw)
        /\ IF kw = "TRANSITION_TO_GOALS:" THEN Trim(Tail(line)) # <<>>
           ELSE IsTwoFieldLine(line, kw)

\* C1: for a reply with N well-formed PERSONA_CONFIRMED lines the Discovery
\* agent returns exactly N create actions, in reply order, each with the
\* trimmed name and northStar of its line, and the userResponse holds none of
\* those lines.
C1_DiscoveryOneActionPerLine ==
    (agentResult.agent = "discovery") =>
        LET wf == TwoFieldLines(aiResponse, "PERSONA_CONFIRMED:")
            r == agentResult.result
        IN  /\ r.personaActions =
                 [k \in 1..Len(wf) |->
                    [type |-> "create", name |-> LineName(wf[k]),
                     northStar |-> LineRest(wf[k])]]
            /\ TwoFieldLines(r.userResponse, "PERSONA_CONFIRMED:") = <<>>

\* C2: whatever the agent and the kind of action line, a grammar line of the
\* reply is not a line of the userResponse that processResponse returns.
C2_NoGrammarLineInUserResponse ==
    (agentResult.agent # "none") =>
        LET ls == SplitLines(aiResponse)
            us == SplitLines(agentResult.result.userResponse)
        IN  \A k \in 1..Len(ls) :
                IsGrammarLine(ls[k]) => \A j \in 1..Len(us) : us[j] # ls[k]

\* C3: the Refinement agent emits, for the lines REFINED_PERSONA: X | Y of a
\* reply in order, no action when Y.trim().length <= 10 and the one action
\* {update, X, Y} otherwise.
C3_RefinementLengthFloor ==
    (agentResult.agent = "refinement") =>
        LET kept == SelectSeq(TwoFieldLines(aiResponse, "REFINED_PERSONA:"),
                              LAMBDA line : CharLen(LineRest(line)) > 10)
        IN  agentResult.result.personaActions =
                [k \in 1..Len(kept) |->
                   [type |-> "update", name |-> LineName(kept[k]),
                    northStar |-> LineRest(kept[k])]]

RECURSIVE SplitOn(_, _)
\* the pieces of s between the tokens tok
SplitOn(s, tok) ==
    IF FirstTok(s, 1, tok) > Len(s) THEN <<s>>
    ELSE <<SubSeq(s, 1, FirstTok(s, 1, tok) - 1)>>
         \o SplitOn(SubSeq(s, FirstTok(s, 1, tok) + 1, Len(s)), tok)

\* the trimmed fields of an action line, the keyword left out
Fields(line) == [k \in 1..Len(SplitOn(Tail(line), "|")) |->
                    Trim(SplitOn(Tail(line), "|")[k])]

\* a line  KW: f1 | ... | fn  with n fields, none of them blank
IsFieldLine(line, kw, n) ==
    /\ KwAt(line, 1, kw)
    /\ Len(Fields(line)) = n
    /\ \A k \in 1..n : Fields(line)[k] # <<>>

\* the lines of s that open with the keyword kw, in order
KeywordLines(s, kw) ==
    SelectSeq(SplitLines(s), LAMBDA line : line # <<>> /\ KwAt(line, 1, kw))

\* the reply's only GOAL_CONFIRMED line and only GOAL_UPDATED line are
\* well-formed
OneGoalLineEach(cs, us) ==
    /\ Len(cs) = 1
    /\ Len(us) = 1
    /\ IsFieldLine(cs[1], "GOAL_CONFIRMED:", 3)
    /\ IsFieldLine(us[1], "GOAL_UPDATED:", 4)

\* the create of the line c and then the update of the line u
CreateThenUpdate(c, u) ==
    << [type |-> "create", name |-> c[1], acceptanceCriteria |-> c[2],
        reviewDate |-> c[3]],
       [type |-> "update", originalName |-> u[1], name |-> u[2],
        acceptanceCriteria |-> u[3], reviewDate |-> u[4]] >>

GoalLinesSettled(cs, us, actions) ==
    OneGoalLineEach(cs, us) => actions = CreateThenUpdate(Fields(cs[1]), Fields(us[1]))

Range(q) == {q[k] : k \in 1..Len(q)}

\* a line  PERSONA_CONFIRMED: name (was: previous) | northStar
IsRenameLine(line) ==
    /\ IsTwoFieldLine(line, "PERSONA_CONFIRMED:")
    /\ FirstTok(line, 2, "(was:") < FirstTok(line, 2, ")")
    /\ FirstTok(line, 2, ")") < FirstTok(line, 2, "|")
    /\ Trim(SubSeq(line, 2, FirstTok(line, 2, "(was:") - 1)) # <<>>

RenameName(line) == Trim(SubSeq(line, 2, FirstTok(line, 2, "(was:") - 1))

RenamePrevious(line) ==
    Trim(SubSeq(line, FirstTok(line, 2, "(was:") + 1, FirstTok(line, 2, ")") - 1))

\* the action a carries the rename of the line
IsRenameOf(a, line) ==
    /\ a.name = RenameName(line)
    /\ "previousName" \in DOMAIN a
    /\ a.previousName = RenamePrevious(line)

\* C17: for every reply line of the rename form
\* PERSONA_CONFIRMED: name (was: previous) | northStar  the Discovery and the
\* Educational agent return a PersonaAction whose name is name and whose
\* previousName is previous.
C17_RenameLineParsed ==
    (agentResult.agent \in {"discovery", "educational"}) =>
        \A line \in {l \in Range(SplitLines(aiResponse)) : IsRenameLine(l)} :
            \E k \in 1..Len(agentResult.result.personaActions) :
                IsRenameOf(agentResult.result.personaActions[k], line)

(***************************************************************************)
(* AuthAwarePersonaService.  A persona is [id, name, northStar, updatedAt];*)
(* a backend persona is [id, label, north_star, updated_at].  The service  *)
(* state an operation works on is the record                               *)
(*   [personas, localStore, cloud, pendingChanges, nextId].                *)
(***************************************************************************)
\* new AuthAwarePersonaService(9)
MaxPersonas == 9

\* `Maximum ${this.maxPersonas} personas allowed`
MaxError(n) == <<"Maximum ", ToString(n), " personas allowed">>

NotFound == <<"Persona not found">>

NoError == <<>>

\* the names given to personas; two of them differ in case and blanks only
Names == {"Parent", "parent ", "Coach"}

NorthStars == {"n1", "n2"}

\* name.trim().toLowerCase()
NameKey(n) ==
    CASE n = "Parent" -> "parent"
      [] n = "parent " -> "parent"
      [] n = "Coach" -> "coach"
      [] OTHER -> n

\* PersonaMapper.toFrontend
ToFrontend(b) ==
    [id |-> b.id, name |-> b.label, northStar |-> b.north_star,
     updatedAt |-> b.updated_at]

\* PersonaMapper.toFrontendList
ToFrontendList(bs) == [k \in 1..Len(bs) |-> ToFrontend(bs[k])]

\* PersonaMapper.toBackendCreate, as an API call
ToBackendCreate(p) ==
    [call |-> "create", id |-> 0, label |-> p.name, north_star |-> p.northStar]

\* PersonaMapper.toBackendUpdate, as an API call on the backend persona id
ToBackendUpdate(p, id) ==
    [call |-> "update", id |-> id, label |-> p.name, north_star |-> p.northStar]

\* apiClient.deletePersona(userId, label), as an API call
DeleteCall(label) ==
    [call |-> "delete", id |-> 0, label |-> label, north_star |-> Undefined]

\* the backend: POST /personas/
CloudCreate(c, call, id, now) ==
    Append(c, [id |-> id, label |-> call.label, north_star |-> call.north_star,
               updated_at |-> now])

\* the backend: PUT /personas/{id}
CloudUpdate(c, call, now) ==
    [k \in 1..Len(c) |->
       IF c[k].id = call.id
       THEN [c[k] EXCEPT !.label = call.label, !.north_star = call.north_star,
                         !.updated_at = now]
       ELSE c[k]]

\* the backend: DELETE /users/{userId}/personas/{label}
CloudDelete(c, call) == SelectSeq(c, LAMBDA b : b.label # call.label)

\* one API call that succeeds
ApplyCall(s, call, now) ==
    CASE call.call = "create" ->
           [s EXCEPT !.cloud = CloudCreate(s.cloud, call, s.nextId, now),
                     !.nextId = s.nextId + 1]
      [] call.call = "update" -> [s EXCEPT !.cloud = CloudUpdate(s.cloud, call, now)]
      [] OTHER -> [s EXCEPT !.cloud = CloudDelete(s.cloud, call)]

RECURSIVE ApplyCalls(_, _, _)
ApplyCalls(s, calls, now) ==
    IF calls = <<>> THEN s
    ELSE ApplyCalls(ApplyCall(s, Head(calls), now), Tail(calls), now)

\* saveToLocal: localStorage.setItem(KEY, JSON.stringify(this.personas))
SaveToLocal(s) == [s EXCEPT !.localStore = [present |-> TRUE, list |-> s.personas]]

\* loadFromLocal: the stored list replaces the personas when there is one
LoadFromLocal(s) ==
    IF s.localStore.present THEN [s EXCEPT !.personas = s.localStore.list] ELSE s

\* loadFromCloud; getOk: apiClient.getPersonas resolves
LoadFromCloud(s, usr, getOk) ==
    IF usr = Null THEN LoadFromLocal(s)
    ELSE IF getOk
         THEN SaveToLocal([s EXCEPT !.personas = ToFrontendList(s.cloud),
                                    !.pendingChanges = FALSE])
         ELSE LoadFromLocal(s)

\* cloudMap.get(label): of the personas with one label the map keeps the last
CloudMapGet(snap, label) ==
    snap[SetMax({k \in 1..Len(snap) : snap[k].label = label})]

CloudMapHas(snap, label) == \E k \in 1..Len(snap) : snap[k].label = label

\* syncToCloud, first loop: the call made for the local persona p
SyncCallFor(p, snap) ==
    IF CloudMapHas(snap, p.name)
    THEN IF p.updatedAt > CloudMapGet(snap, p.name).updated_at
         THEN <<ToBackendUpdate(p, CloudMapGet(snap, p.name).id)>>
         ELSE <<>>
    ELSE <<ToBackendCreate(p)>>

\* syncToCloud, second loop: the call made for the cloud persona b
SyncDeleteFor(b, ps) ==
    IF \E k \in 1..Len(ps) : ps[k].name = b.label THEN <<>> ELSE <<DeleteCall(b.label)>>

\* the API calls of one syncToCloud after its getPersonas, in order
SyncCalls(ps, snap) ==
    Flatten([k \in 1..Len(ps) |-> SyncCallFor(ps[k], snap)])
    \o Flatten([k \in 1..Len(snap) |-> SyncDeleteFor(snap[k], ps)])

\* the calls of a sync that fails at its failAt-th call (0: none fails);
\* getPersonas is the first call
SyncRun(s, calls, failAt, now) ==
    IF failAt = 0 \/ failAt > Len(calls) + 1
    THEN [s |-> SaveToLocal([ApplyCalls(s, calls, now) EXCEPT !.pendingChanges = FALSE]),
          success |-> TRUE]
    ELSE [s |-> SaveToLocal(ApplyCalls(s, SubSeq(calls, 1, failAt - 2), now)),
          success |-> FALSE]

\* syncToCloud
SyncToCloud(s, usr, failAt, now) ==
    IF usr = Null THEN [s |-> SaveToLocal(s), success |-> TRUE]
    ELSE SyncRun(s, SyncCalls(s.personas, s.cloud), failAt, now)

\* createPersona after its capacity check: push, then save or sync
Pushed(s, name, northStar, now) ==
    [s EXCEPT !.personas = Append(s.personas,
                  [id |-> s.nextId, name |-> name, northStar |-> northStar,
                   updatedAt |-> now]),
              !.nextId = s.nextId + 1,
              !.pendingChanges = TRUE]

\* if (this.user) { syncToCloud, saveToLocal when it failed } else saveToLocal
SyncOrSave(s, usr, failAt, now) ==
    IF usr # Null THEN SaveToLocal(SyncToCloud(s, usr, failAt, now).s)
    ELSE SaveToLocal(s)

\* createPersona with the capacity check off by one
CreatePersonaOffByOne(s, usr, name, northStar, failAt, now) ==
    IF Len(s.personas) > MaxPersonas
    THEN [s |-> s, success |-> FALSE, error |-> MaxError(MaxPersonas)]
    ELSE [s |-> SyncOrSave(Pushed(s, name, northStar, now), usr, failAt, now),
          success |-> TRUE, error |-> NoError]

\* createPersona
CreatePersona(s, usr, name, northStar, failAt, now) ==
    IF Len(s.personas) >= MaxPersonas
    THEN [s |-> s, success |-> FALSE, error |-> MaxError(MaxPersonas)]
    ELSE [s |-> SyncOrSave(Pushed(s, name, northStar, now), usr, failAt, now),
          success |-> TRUE, error |-> NoError]

\* this.personas.findIndex(p => p.id === id), 0 for -1
FindIndex(ps, id) == MinOr({k \in 1..Len(ps) : ps[k].id = id}, 0)

\* the personas with the one at index k changed by updates
UpdatedAt(ps, k, updates, now) ==
    [ps EXCEPT ![k] = [Spread(ps[k], updates) EXCEPT !.updatedAt = now]]

UpdateAtIndex(s, k, updates, now) ==
    IF k = 0 THEN [s |-> s, success |-> FALSE, error |-> NotFound]
    ELSE [s |-> SaveToLocal([s EXCEPT !.personas = UpdatedAt(s.personas, k, updates, now),
                                      !.pendingChanges = TRUE]),
          success |-> TRUE, error |-> NoError]

\* updatePersona
UpdatePersona(s, id, updates, now) ==
    UpdateAtIndex(s, FindIndex(s.personas, id), updates, now)

\* this.personas.splice(index, 1)
Splice(ps, k) == SubSeq(ps, 1, k - 1) \o SubSeq(ps, k + 1, Len(ps))

RemoveAtIndex(s, usr, k, failAt, now) ==
    IF k = 0 THEN [s |-> s, success |-> FALSE, error |-> NotFound]
    ELSE [s |-> IF usr # Null
                THEN SyncToCloud([s EXCEPT !.personas = Splice(s.personas, k),
                                           !.pendingChanges = TRUE],
                                 usr, failAt, now).s
                ELSE SaveToLocal([s EXCEPT !.personas = Splice(s.personas, k),
                                           !.pendingChanges = TRUE]),
          success |-> TRUE, error |-> NoError]

\* removePersona
RemovePersona(s, usr, id, failAt, now) ==
    RemoveAtIndex(s, usr, FindIndex(s.personas, id), failAt, now)

\* this.personas.find(p => p.name.trim().toLowerCase() ===
\*                         n.trim().toLowerCase()), as an index, 0 if none
FindByName(ps, n) == MinOr({k \in 1..Len(ps) : NameKey(ps[k].name) = NameKey(n)}, 0)

\* applyUpdates: the persona an update is applied to, as an index, 0 if none
ExistingPersona(ps, update) ==
    IF update.previousName # Undefined /\ FindByName(ps, update.previousName) # 0
    THEN FindByName(ps, update.previousName)
    ELSE FindByName(ps, update.name)

\* applyUpdates: the body of its loop, k the index of existingPersona
ApplyUpdateAt(s, usr, update, k, failAt, now) ==
    IF k # 0
    THEN UpdatePersona(s, s.personas[k].id,
                       [name |-> update.name, northStar |-> update.northStar], now).s
    ELSE IF FindByName(s.personas, update.name) = 0
         THEN CreatePersona(s, usr, update.name, update.northStar, failAt, now).s
         ELSE s

RECURSIVE ApplyUpdates(_, _, _, _, _)
\* applyUpdates
ApplyUpdates(s, usr, updates, failAt, now) ==
    IF updates = <<>> THEN s
    ELSE ApplyUpdates(
           ApplyUpdateAt(s, usr, Head(updates),
                         ExistingPersona(s.personas, Head(updates)), failAt, now),
           usr, Tail(updates), failAt, now)

\* migrateLocalToCloud, the loop: the local personas whose index is not in
\* failed are created in the cloud
MigrateAll(s, failed, now) ==
    ApplyCalls(s,
        Flatten([k \in 1..Len(s.personas) |->
                   IF k \in failed THEN <<>> ELSE <<ToBackendCreate(s.personas[k])>>]),
        now)

\* localStorage.removeItem(KEY)
ClearLocal(s) == [s EXCEPT !.localStore = NoItem]

\* migrateLocalToCloud after its loadFromLocal
MigrateLoaded(s, usr, getOk, failed, loadOk, now) ==
    IF Len(s.personas) = 0 THEN LoadFromCloud(s, usr, loadOk)
    ELSE IF ~getOk THEN s
    ELSE IF Len(s.cloud) = 0
         THEN ClearLocal(LoadFromCloud(MigrateAll(s, failed, now), usr, loadOk))
         ELSE LoadFromCloud(s, usr, loadOk)

\* migrateLocalToCloud
MigrateLocalToCloud(s, usr, getOk, failed, loadOk, now) ==
    IF usr = Null THEN s
    ELSE MigrateLoaded(LoadFromLocal(s), usr, getOk, failed, loadOk, now)

(***************************************************************************)
(* Specification SpecPS: the persona service under its callers             *)
(***************************************************************************)
\* operations per run
MaxSteps == 3

\* a sync may fail at its first, second, ... MaxFailAt-th API call
MaxFailAt == 3

TheUser == "u1"

FillerNames == <<"f1", "f2", "f3", "f4", "f5", "f6", "f7", "f8", "f9">>

\* n personas as n calls of createPersona leave them
Fillers(n) ==
    [k \in 1..n |-> [id |-> k, name |-> FillerNames[k], northStar |-> "n1",
                     updatedAt |-> 0]]

\* the same personas as the backend holds them after a sync
ToBackendList(ps) ==
    [k \in 1..Len(ps) |-> [id |-> ps[k].id, label |-> ps[k].name,
                           north_star |-> ps[k].northStar,
                           updated_at |-> ps[k].updatedAt]]

\* what an update action of the coach may hold
Updates ==
    [name : Names, northStar : {"n2"}, previousName : Names \cup {Undefined}]

\* the action lists handed to applyUpdates: the one action of a reply
UpdateLists == {<<u>> : u \in Updates}

\* result.personaActions of a reply as the agents' parsers build them: the
\* update of REFINED_PERSONA, the delete of DELETE_PERSONA and the two
\* actions of MERGE_PERSONAS
PersonaActionLists ==
    {<<[type |-> "update", name |-> n, northStar |-> "n2"]>> : n \in Names}
    \cup {<<[type |-> "delete", name |-> n]>> : n \in Names}
    \cup {<<[type |-> "update", name |-> "Coach", northStar |-> "n2",
            previousName |-> "f1"],
           [type |-> "delete", name |-> n]>> : n \in {"Parent"}}

\* action.f, undefined when the action has no field f
FieldOr(action, f) == IF f \in DOMAIN action THEN action[f] ELSE Undefined

\* SetupIdentityPage.sendMessage: result.personaActions.map(action => ({...}))
PersonaUpdateOf(action) ==
    [id |-> FieldOr(action, "id"), name |-> action.name,
     northStar |-> FieldOr(action, "northStar"), action |-> action.type,
     previousName |-> FieldOr(action, "previousName")]

PersonaUpdatesOf(actions) ==
    [k \in 1..Len(actions) |-> PersonaUpdateOf(actions[k])]

\* the field edits of the page: updatePersona(id, { [field]: value })
FieldEdits == {[name |-> n] : n \in Names} \cup {[northStar |-> x] : x \in NorthStars}

\* the ids a caller passes: the first persona's, the last one's, or a stale one
TargetIds(ps) == {0} \cup {ps[k].id : k \in {1, Len(ps)} \cap (1..Len(ps))}

\* the service state the operations work on
Cur ==
    [personas |-> personas, localStore |-> localStore, cloud |-> cloud,
     pendingChanges |-> pendingChanges, nextId |-> nextId]

Done(s) == [s |-> s, success |-> TRUE, error |-> NoError]

\* the sizes of the persona list a session starts with
InitSizes == {0, MaxPersonas - 1, MaxPersonas}

\* a session with n personas, anonymous or signed in and in sync
InitPS ==
    /\ aiResponse = <<>>
    /\ agentResult = NoResult
    /\ \E n \in InitSizes :
          /\ personas = Fillers(n)
          /\ user \in {Null, TheUser}
          /\ cloud = IF user = Null THEN <<>> ELSE ToBackendList(Fillers(n))
          /\ localStore = IF user = Null /\ n = 0 THEN NoItem
                          ELSE [present |-> TRUE, list |-> Fillers(n)]
          /\ nextId = n + 1
    /\ pendingChanges = FALSE
    /\ clock = 1
    /\ psResult = NoOp
    /\ CMIdle
    /\ ChatIdle
    /\ UIIdle

\* the operation op(arg) ends with r = [s, success, error] and the user usr
Commit(r, usr, op, arg) ==
    /\ clock <= MaxSteps
    /\ personas' = r.s.personas
    /\ localStore' = r.s.localStore
    /\ cloud' = r.s.cloud
    /\ pendingChanges' = r.s.pendingChanges
    /\ nextId' = r.s.nextId
    /\ user' = usr
    /\ clock' = clock + 1
    /\ psResult' = [op |-> op, arg |-> arg, success |-> r.success, error |-> r.error,
                    before |-> personas]
    /\ UNCHANGED parseVars
    /\ UNCHANGED cmVars
    /\ UNCHANGED chatVars
    /\ UNCHANGED uiVars

Create ==
    \E name \in Names, northStar \in NorthStars, failAt \in 0..MaxFailAt :
        Commit(CreatePersona(Cur, user, name, northStar, failAt, clock), user,
               "createPersona", [name |-> name, northStar |-> northStar])

Update ==
    \E id \in TargetIds(personas), updates \in FieldEdits :
        Commit(UpdatePersona(Cur, id, updates, clock), user,
               "updatePersona", [id |-> id, updates |-> updates])

Remove ==
    \E id \in TargetIds(personas), failAt \in 0..MaxFailAt :
        Commit(RemovePersona(Cur, user, id, failAt, clock), user,
               "removePersona", [id |-> id])

Apply ==
    \E updates \in UpdateLists, failAt \in 0..MaxFailAt :
        Commit(Done(ApplyUpdates(Cur, user, updates, failAt, clock)), user,
               "applyUpdates", updates)

\* SetupIdentityPage.sendMessage on a reply with persona actions:
\* personaService.applyUpdates(personaUpdates), then setPersonas; the page sets
\* no error on this path
ApplyActions ==
    \E actions \in PersonaActionLists, failAt \in 0..MaxFailAt :
        Commit(Done(ApplyUpdates(Cur, user, PersonaUpdatesOf(actions), failAt, clock)),
               user, "applyActions", actions)

\* the setInterval callback of startPeriodicSync
PeriodicSync ==
    /\ user # Null
    /\ pendingChanges
    /\ \E failAt \in 0..MaxFailAt :
          Commit(SyncToCloud(Cur, user, failAt, clock) @@ [error |-> NoError], user,
                 "syncToCloud", failAt)

\* forceSyncToCloud
ForceSync ==
    \E failAt \in 0..MaxFailAt :
        Commit(SyncToCloud(Cur, user, failAt, clock) @@ [error |-> NoError], user,
               "forceSyncToCloud", failAt)

\* a page load: new AuthAwarePersonaService(9), then initialize()
PageLoad ==
    \E getOk \in BOOLEAN :
        Commit(Done(LoadFromCloud([Cur EXCEPT !.personas = <<>>,
                                              !.pendingChanges = FALSE],
                                  user, getOk)),
               user, "initialize", getOk)

\* the auth listener: the user signs in
Login ==
    /\ user = Null
    /\ \E getOk \in BOOLEAN, loadOk \in BOOLEAN,
          failed \in {{}, {1}, {Len(personas)}} :
          Commit(Done(MigrateLocalToCloud(Cur, TheUser, getOk, failed, loadOk, clock)),
                 TheUser, "login", [getOk |-> getOk, loadOk |-> loadOk, failed |-> failed])

\* the auth listener: the user signs out
Logout ==
    /\ user # Null
    /\ Commit(Done(LoadFromLocal(Cur)), Null, "logout", <<>>)

\* the auth listener: the signed-in user is announced again
AuthRefresh ==
    /\ user # Null
    /\ \E getOk \in BOOLEAN :
          Commit(Done(LoadFromCloud(Cur, user, getOk)), user, "authRefresh", getOk)

NextPS ==
    \/ Create
    \/ Update
    \/ Remove
    \/ Apply
    \/ ApplyActions
    \/ PeriodicSync
    \/ ForceSync
    \/ PageLoad
    \/ Login
    \/ Logout
    \/ AuthRefresh

SpecPS == InitPS /\ [][NextPS]_vars

(***************************************************************************)
(* The persona service's claims                                            *)
(***************************************************************************)
\* the list of (id, name, northStar)
Triples(ps) == [k \in 1..Len(ps) |-> <<ps[k].id, ps[k].name, ps[k].northStar>>]

\* the last operation was applyUpdates with one action whose previousName
\* matched a persona
RenameApplied ==
    /\ psResult.op = "applyUpdates"
    /\ Len(psResult.arg) = 1
    /\ psResult.arg[1].previousName # Undefined
    /\ FindByName(psResult.before, psResult.arg[1].previousName) # 0

\* C4: applyUpdates with {name: New, previousName: Old}, when a persona named
\* Old exists (case-insensitive), renames that persona to New and keeps the
\* number of personas; applying the same action again leaves the list of
\* (id, name, northStar) as it is.
C4_RenameIsIdempotent ==
    RenameApplied =>
        /\ Len(personas) = Len(psResult.before)
        /\ personas[FindByName(psResult.before, psResult.arg[1].previousName)].id
             = psResult.before[FindByName(psResult.before,
                                          psResult.arg[1].previousName)].id
        /\ personas[FindByName(psResult.before, psResult.arg[1].previousName)].name
             = psResult.arg[1].name
        /\ \A failAt \in 0..MaxFailAt :
              Triples(ApplyUpdates(Cur, user, psResult.arg, failAt, clock).personas)
                = Triples(personas)

\* C5: createPersona on a service that holds 9 personas returns success =
\* false with the error 'Maximum 9 personas allowed' and changes neither the
\* persona list nor the local store, the cloud or the pending flag.
C5_CreateAtCapacityRejected ==
    [][(/\ clock' = clock + 1
        /\ psResult'.op = "createPersona"
        /\ Len(personas) = 9)
       => (/\ psResult'.success = FALSE
           /\ psResult'.error = <<"Maximum ", "9", " personas allowed">>
           /\ personas' = personas
           /\ localStore' = localStore
           /\ cloud' = cloud
           /\ pendingChanges' = pendingChanges)]_vars

\* a createPersona was called on 9 personas and was rejected
C5_Witness ==
    /\ psResult.op = "createPersona"
    /\ Len(psResult.before) = 9
    /\ psResult.success = FALSE
    /\ personas = psResult.before

\* C6: the persona list holds at most 9 personas in every reachable state.
C6_AtMostNinePersonas == Len(personas) <= 9

\* the name an update action refers to: previousName of a rename, else name
ReferredName(action) ==
    IF FieldOr(action, "previousName") # Undefined THEN action.previousName
    ELSE action.name

\* the last operation applied one update action that refers to a persona
\* which was not in the list
MissingUpdateApplied ==
    /\ psResult.op = "applyActions"
    /\ Len(psResult.arg) = 1
    /\ psResult.arg[1].type = "update"
    /\ FindByName(psResult.before, ReferredName(psResult.arg[1])) = 0

\* C21: applying an update action that refers to a persona name which is not
\* in the list reports an error that names the missing persona and leaves
\* the persona list as it was: nothing added, renamed or changed.
C21_MissingPersonaReported ==
    MissingUpdateApplied =>
        /\ personas = psResult.before
        /\ psResult.success = FALSE
        /\ \E k \in 1..Len(psResult.error) :
              psResult.error[k] = ReferredName(psResult.arg[1])

\* the ids of the personas of before that a delete action of the list names
DeletedIds(before, actions) ==
    {before[FindByName(before, actions[j].name)].id :
       j \in {i \in 1..Len(actions) :
                /\ actions[i].type = "delete"
                /\ FindByName(before, actions[i].name) # 0}}

\* C22: after the page has applied a list of persona actions, a persona that
\* a delete action of the list named is no longer in the persona list, and
\* the list holds no persona more than before.
C22_DeleteActionRemoves ==
    psResult.op = "applyActions" =>
        /\ \A k \in 1..Len(personas) :
              personas[k].id \notin DeletedIds(psResult.before, psResult.arg)
        /\ DeletedIds(psResult.before, psResult.arg) # {}
              => Len(personas) < Len(psResult.before)

\* the auth listener has just run migrateLocalToCloud for a user who had
\* local personas and no cloud personas
MigrationRuns ==
    /\ user = Null
    /\ user' # Null
    /\ psResult'.op = "login"
    /\ localStore.present
    /\ localStore.list # <<>>
    /\ cloud = <<>>

\* the persona p is stored in the backend's list c
InCloud(p, c) ==
    \E k \in 1..Len(c) : c[k].label = p.name /\ c[k].north_star = p.northStar

\* the persona p is in the item of local storage
InLocal(p, item) ==
    item.present
    /\ \E k \in 1..Len(item.list) :
          item.list[k].name = p.name /\ item.list[k].northStar = p.northStar

\* C30: login migration loses no persona: after migrateLocalToCloud for a
\* user with local personas and no cloud personas, every persona that was in
\* local storage is stored in the cloud or still in local storage, also when
\* some of the create calls fail.
C30_MigrationLosesNoPersona ==
    [][MigrationRuns
         => \A k \in 1..Len(localStore.list) :
               \/ InCloud(localStore.list[k], cloud')
               \/ InLocal(localStore.list[k], localStore')]_vars

(***************************************************************************)
(* ConversationManager.  A user message is a sequence of words; a keyword  *)
(* of analyzeIntent is one word ("what is" and the like are one word       *)
(* here).  A thrown exception is a record [threw |-> TRUE, message].       *)
(***************************************************************************)
GoalKeywords ==
    {"goal", "achieve", "target", "accomplish", "track", "progress", "review", "measure"}

EducationalKeywords ==
    {"what is", "what are", "explain", "examples", "help me understand"}

DiscoveryKeywords == {"ready", "create", "discover", "my own", "identify", "find my"}

RefinementKeywords ==
    {"refine", "change", "better", "improve", "update", "modify", "fix"}

\* the keywords of ManagementAgent.canHandle
ManagementKeywords ==
    {"manage", "organize", "review", "overview", "list", "delete", "remove",
     "show me", "which personas"}

\* the words of the user messages: one per keyword group of analyzeIntent, one
\* in capitals, one that holds a keyword inside ("already"), one that only the
\* Management agent knows ("delete"), one that holds none
Words == {"goal", "Explain", "already", "refine", "delete", "hello"}

\* String.prototype.toLowerCase, word by word
WordToLower(w) ==
    CASE w = "Explain" -> "explain"
      [] w = "Run" -> "run"
      [] OTHER -> w

ToLowerCase(msg) == [k \in 1..Len(msg) |-> WordToLower(msg[k])]

\* whether keyword kw is a substring of word w
WordIncludes(w, kw) == w = kw \/ <<w, kw>> \in {<<"already", "ready">>}

\* String.prototype.includes
Includes(msg, kw) == \E k \in 1..Len(msg) : WordIncludes(msg[k], kw)

\* msg.includes(k1) || msg.includes(k2) || ...
IncludesAny(msg, kws) == \E kw \in kws : Includes(msg, kw)

\* ManagementAgent.canHandle
ManagementCanHandle(userMessage) ==
    IncludesAny(ToLowerCase(userMessage), ManagementKeywords)

\* the keys of this.agents
Registered == AgentTypes

\* analyzeIntent asking the Management agent first
AnalyzeLoweredManagementFirst(msg, ctx, registry) ==
    IF IncludesAny(msg, ManagementKeywords) THEN "management"
    ELSE IF IncludesAny(msg, GoalKeywords) THEN "goal"
    ELSE IF IncludesAny(msg, EducationalKeywords) THEN "educational"
    ELSE IF IncludesAny(msg, DiscoveryKeywords) THEN "discovery"
    ELSE IF IncludesAny(msg, RefinementKeywords) \/ ctx.targetPersonaId # Undefined
         THEN "refinement"
    ELSE IF ctx.currentAgentType \in registry THEN ctx.currentAgentType
    ELSE "educational"

\* analyzeIntent without the targetPersonaId test
AnalyzeLoweredNotSticky(msg, ctx, registry) ==
    IF IncludesAny(msg, GoalKeywords) THEN "goal"
    ELSE IF IncludesAny(msg, EducationalKeywords) THEN "educational"
    ELSE IF IncludesAny(msg, DiscoveryKeywords) THEN "discovery"
    ELSE IF IncludesAny(msg, RefinementKeywords) THEN "refinement"
    ELSE IF ctx.currentAgentType \in registry THEN ctx.currentAgentType
    ELSE "educational"

\* analyzeIntent with the Educational keywords tested first
AnalyzeLoweredEducationalFirst(msg, ctx, registry) ==
    IF IncludesAny(msg, EducationalKeywords) THEN "educational"
    ELSE IF IncludesAny(msg, GoalKeywords) THEN "goal"
    ELSE IF IncludesAny(msg, DiscoveryKeywords) THEN "discovery"
    ELSE IF IncludesAny(msg, RefinementKeywords) \/ ctx.targetPersonaId # Undefined
         THEN "refinement"
    ELSE IF ctx.currentAgentType \in registry THEN ctx.currentAgentType
    ELSE "educational"

\* analyzeIntent with Educational as the default whatever the current agent
AnalyzeLoweredDefaultEducational(msg, ctx, registry) ==
    IF IncludesAny(msg, GoalKeywords) THEN "goal"
    ELSE IF IncludesAny(msg, EducationalKeywords) THEN "educational"
    ELSE IF IncludesAny(msg, DiscoveryKeywords) THEN "discovery"
    ELSE IF IncludesAny(msg, RefinementKeywords) \/ ctx.targetPersonaId # Undefined
         THEN "refinement"
    ELSE "educational"

\* analyzeIntent on the lower-cased message
AnalyzeLowered(msg, ctx, registry) ==
    IF IncludesAny(msg, GoalKeywords) THEN "goal"
    ELSE IF IncludesAny(msg, EducationalKeywords) THEN "educational"
    ELSE IF IncludesAny(msg, DiscoveryKeywords) THEN "discovery"
    ELSE IF IncludesAny(msg, RefinementKeywords) \/ ctx.targetPersonaId # Undefined
         THEN "refinement"
    ELSE IF ctx.currentAgentType \in registry THEN ctx.currentAgentType
    ELSE "educational"

\* analyzeIntent
AnalyzeIntent(userMessage, ctx, registry) ==
    AnalyzeLowered(ToLowerCase(userMessage), ctx, registry)

\* agent.generateSystemPrompt(context): what the templates read of the context
GenerateSystemPrompt(type, ctx) ==
    [agent |-> type,
     persona |-> IF type = "refinement" THEN ctx.targetPersonaId
                 ELSE IF type = "goal" THEN ctx.targetPersona
                 ELSE Undefined,
     history |-> IF type \in {"refinement", "management"} THEN <<>>
                 ELSE ctx.conversationHistory]

\* callAI: the messages of the request
RequestMessages(systemPrompt, ctx, userMessage) ==
    <<[from |-> "system", text |-> systemPrompt]>>
    \o ctx.conversationHistory
    \o <<[from |-> "user", text |-> userMessage]>>

Returned(v) == [threw |-> FALSE, value |-> v, message |-> <<>>]

Thrown(m) == [threw |-> TRUE, value |-> Undefined, message |-> m]

\* what can come back from the endpoint
FailureKinds == {"httpError", "noReply", "fetchRejected", "notText"}

\* callAI after its fetch: the reply, or the exception it throws
CallAI(outcome) ==
    CASE outcome.kind = "fetchRejected" -> Thrown(<<"Failed to fetch">>)
      [] outcome.kind = "httpError" ->
           Thrown(<<"API call failed: ", "500", " ", "Internal Server Error">>)
      [] outcome.kind = "noReply" -> Thrown(<<"No reply received from AI service">>)
      [] OTHER -> Returned(outcome)

\* agent.processResponse on what callAI returned: a reply that is not a
\* string makes the regular expressions' replace throw
AgentProcessResponse(type, reply, ctx, now) ==
    IF reply.kind = "notText" THEN Thrown(<<"aiResponse.replace is not a function">>)
    ELSE Returned(ProcessResponse(type, reply.text, ctx, now))

\* processWithAgent writing the turn's pair onto the history the manager was
\* constructed with
UpdatedContextFromStart(ctx, result, userMessage) ==
    Spread(Spread(ctx, result.contextUpdates),
           [conversationHistory |->
              InitialContext.conversationHistory
              \o <<[from |-> "user", text |-> userMessage],
                   [from |-> "coach", text |-> result.userResponse]>>])

\* processWithAgent, the context update
UpdatedContext(ctx, result, userMessage) ==
    Spread(Spread(ctx, result.contextUpdates),
           [conversationHistory |->
              ctx.conversationHistory
              \o <<[from |-> "user", text |-> userMessage],
                   [from |-> "coach", text |-> result.userResponse]>>])

\* processWithAgent after agent.processResponse has returned or thrown r
AfterProcess(ctx, r, userMessage) ==
    IF r.threw THEN [ctx |-> ctx, done |-> r]
    ELSE [ctx |-> UpdatedContext(ctx, r.value, userMessage), done |-> r]

\* processWithAgent with the user message put into the history before the
\* call of the LLM
AfterCallAIEager(type, ctx, ai, userMessage, now) ==
    IF ai.threw
    THEN [ctx |-> [ctx EXCEPT !.conversationHistory =
                      Append(ctx.conversationHistory,
                             [from |-> "user", text |-> userMessage])],
          done |-> ai]
    ELSE AfterProcess(ctx, AgentProcessResponse(type, ai.value, ctx, now), userMessage)

\* processWithAgent after callAI has returned or thrown ai
AfterCallAI(type, ctx, ai, userMessage, now) ==
    IF ai.threw THEN [ctx |-> ctx, done |-> ai]
    ELSE AfterProcess(ctx, AgentProcessResponse(type, ai.value, ctx, now), userMessage)

\* processWithAgent from the await of callAI on
ProcessWithAgent(type, ctx, outcome, userMessage, now) ==
    AfterCallAI(type, ctx, CallAI(outcome), userMessage, now)

\* handleProcessingError
HandleProcessingError(message) ==
    [userResponse |->
        <<"I apologize, but I encountered an error processing your message. Could you try rephrasing your question? (Error: ">>
        \o message \o <<")">>,
     personaActions |-> <<>>,
     contextUpdates |-> EmptyObj]

HandleMissingAgentEducationalFirst(ctx, registry) ==
    IF "discovery" \in registry \/ "educational" \in registry
    THEN [ctx |-> [ctx EXCEPT !.currentAgentType =
                      IF "educational" \in registry THEN "educational" ELSE "discovery"],
          done |-> Returned(
             [userResponse |-> <<"I'm having trouble understanding your request right now. Let me help you with persona discovery instead. What would you like to explore about yourself?">>,
              personaActions |-> <<>>,
              contextUpdates |-> EmptyObj])]
    ELSE [ctx |-> ctx, done |-> Thrown(<<"Critical: No fallback agents available">>)]

\* handleMissingAgent
HandleMissingAgent(ctx, registry) ==
    IF "discovery" \in registry \/ "educational" \in registry
    THEN [ctx |-> [ctx EXCEPT !.currentAgentType =
                      IF "discovery" \in registry THEN "discovery" ELSE "educational"],
          done |-> Returned(
             [userResponse |-> <<"I'm having trouble understanding your request right now. Let me help you with persona discovery instead. What would you like to explore about yourself?">>,
              personaActions |-> <<>>,
              contextUpdates |-> EmptyObj])]
    ELSE [ctx |-> ctx, done |-> Thrown(<<"Critical: No fallback agents available">>)]

\* processMessage, the try block up to the await: the context with the
\* agent analyzeIntent chose
Switched(ctx, userMessage, registry) ==
    [ctx EXCEPT !.currentAgentType = AnalyzeIntent(userMessage, ctx, registry)]

\* processMessage without its catch: an exception rejects the promise
SettleRejecting(r) ==
    IF r.done.threw
    THEN [ctx |-> r.ctx, settled |-> "rejected", caught |-> r.done.message,
          result |-> HandleProcessingError(r.done.message)]
    ELSE [ctx |-> r.ctx, settled |-> "resolved", caught |-> <<>>,
          result |-> r.done.value]

\* processMessage, try/catch: how the promise settles
Settle(r) ==
    IF r.done.threw
    THEN [ctx |-> r.ctx, settled |-> "resolved", caught |-> r.done.message,
          result |-> HandleProcessingError(r.done.message)]
    ELSE [ctx |-> r.ctx, settled |-> "resolved", caught |-> <<>>,
          result |-> r.done.value]

\* ChatService.sendMessage: what it returns when processMessage has settled
\* as done = [settled, result, caught]; saveMessageToBackend does not throw
SendMessageReturn(done) ==
    IF done.settled = "rejected"
    THEN [success |-> FALSE, error |-> done.caught]
    ELSE [success |-> TRUE,
          coachReply |-> done.result.userResponse,
          personaActions |-> done.result.personaActions]

(***************************************************************************)
(* Specification SpecCM: a chat session                                    *)
(***************************************************************************)
\* words per user message
MaxWords == 2

\* calls of the manager's methods per session
MaxCalls == 2

RECURSIVE SeqsUpTo(_, _)
\* the sequences over S of length 1..n
SeqsUpTo(S, n) ==
    IF n = 0 THEN {}
    ELSE {<<w>> : w \in S}
         \cup {Append(m, w) : m \in SeqsUpTo(S, n - 1), w \in S}

Messages == SeqsUpTo(Words, MaxWords)

\* the messages of a session: one word each
SessionMessages == {<<w>> : w \in Words}

\* the replies of the LLM in a session
CMReplies == {<<"a">>, <<"PERSONA_CONFIRMED:", "a", "|", "b">>}

\* the personas the page hands to the manager
TargetPersonas == {[id |-> "p1", name |-> "Parent", northStar |-> "n1"]}

InitCM ==
    /\ aiResponse = <<>>
    /\ agentResult = NoResult
    /\ PSIdle
    /\ ChatIdle
    /\ UIIdle
    /\ CMIdle

\* processMessage up to its await; sw is the context after analyzeIntent
Started(userMessage, sw) ==
    /\ lastStart' = [op |-> "processMessage", msg |-> userMessage,
                     agentBefore |-> context.currentAgentType,
                     targetBefore |-> context.targetPersonaId,
                     agent |-> sw.currentAgentType,
                     overlaps |-> inFlight # <<>>]
    /\ cmCalls' = cmCalls + 1
    /\ IF sw.currentAgentType \in agents
       THEN /\ context' = sw
            /\ inFlight' = Append(inFlight,
                  [msg |-> userMessage, agent |-> sw.currentAgentType,
                   request |-> RequestMessages(
                       GenerateSystemPrompt(sw.currentAgentType, sw), sw, userMessage)])
            /\ UNCHANGED <<cmDone, cmResult>>
       ELSE /\ context' = Settle(HandleMissingAgent(sw, agents)).ctx
            /\ cmResult' = [op |-> "processMessage", msg |-> userMessage,
                            kind |-> "missingAgent",
                            settled |-> Settle(HandleMissingAgent(sw, agents)).settled,
                            result |-> Settle(HandleMissingAgent(sw, agents)).result,
                            caught |-> Settle(HandleMissingAgent(sw, agents)).caught]
            /\ cmDone' = cmDone + 1
            /\ UNCHANGED inFlight
    /\ UNCHANGED <<parseVars, psVars, chatVars, uiVars, agents>>

\* the user sends a message: processMessage(userMessage)
SendMessage ==
    /\ cmCalls < MaxCalls
    /\ \E userMessage \in SessionMessages :
          Started(userMessage, Switched(context, userMessage, agents))

\* the i-th call in flight settles as r after the endpoint's outcome
Settled(i, outcome, r) ==
    /\ context' = r.ctx
    /\ inFlight' = Splice(inFlight, i)
    /\ cmDone' = cmDone + 1
    /\ cmResult' = [op |-> "processMessage", msg |-> inFlight[i].msg,
                    kind |-> outcome.kind, settled |-> r.settled,
                    result |-> r.result, caught |-> r.caught]
    /\ UNCHANGED <<cmCalls, lastStart, parseVars, psVars, chatVars, uiVars, agents>>

\* the endpoint answers a call in flight with a reply
ReceiveReply ==
    \E i \in 1..Len(inFlight), r \in CMReplies :
        Settled(i, [kind |-> "ok", text |-> r],
                Settle(ProcessWithAgent(inFlight[i].agent, context,
                                        [kind |-> "ok", text |-> r],
                                        inFlight[i].msg, cmCalls)))

\* the call to the endpoint fails, or its reply cannot be parsed
ReceiveFailure ==
    \E i \in 1..Len(inFlight), k \in FailureKinds :
        Settled(i, [kind |-> k, text |-> <<>>],
                Settle(ProcessWithAgent(inFlight[i].agent, context,
                                        [kind |-> k, text |-> <<>>],
                                        inFlight[i].msg, cmCalls)))

\* setTargetPersona
SetTargetPersona ==
    /\ cmCalls < MaxCalls
    /\ cmCalls' = cmCalls + 1
    /\ \E p \in TargetPersonas :
          context' = [context EXCEPT !.targetPersonaId = p.id,
                                     !.currentAgentType = "refinement"]
    /\ UNCHANGED <<inFlight, cmDone, lastStart, cmResult, parseVars, psVars, chatVars, uiVars, agents>>

\* setTargetPersonaForGoals
SetTargetPersonaForGoals ==
    /\ cmCalls < MaxCalls
    /\ cmCalls' = cmCalls + 1
    /\ \E p \in TargetPersonas :
          context' = [context EXCEPT !.targetPersonaId = p.id,
                                     !.targetPersona = p,
                                     !.currentAgentType = "goal",
                                     !.conversationHistory = <<>>]
    /\ UNCHANGED <<inFlight, cmDone, lastStart, cmResult, parseVars, psVars, chatVars, uiVars, agents>>

\* clearTargetPersona
ClearTargetPersona ==
    /\ cmCalls < MaxCalls
    /\ cmCalls' = cmCalls + 1
    /\ context' = [context EXCEPT !.targetPersonaId = Undefined]
    /\ UNCHANGED <<inFlight, cmDone, lastStart, cmResult, parseVars, psVars, chatVars, uiVars, agents>>

NextCM ==
    \/ SendMessage
    \/ ReceiveReply
    \/ ReceiveFailure
    \/ SetTargetPersona
    \/ SetTargetPersonaForGoals
    \/ ClearTargetPersona

SpecCM == InitCM /\ [][NextCM]_vars

(***************************************************************************)
(* Specification SpecIntent: analyzeIntent on every message of up to       *)
(* MaxWords words, in every context a session reaches                      *)
(***************************************************************************)
\* the agent types a session reaches: the initial one, the ones analyzeIntent
\* answers on a keyword and the ones the two setters set
ReachedAgents == {"educational", "discovery", "refinement", "goal"}

\* the contexts of a session as far as analyzeIntent reads them: the agent is
\* changed by a keyword, the target by setTargetPersona and
\* clearTargetPersona, each whatever the other is
InitIntent ==
    /\ aiResponse = <<>>
    /\ agentResult = NoResult
    /\ PSIdle
    /\ ChatIdle
    /\ UIIdle
    /\ \E t \in ReachedAgents, p \in {Undefined, "p1"} :
          context = [InitialContext EXCEPT !.currentAgentType = t,
                                           !.targetPersonaId = p]
    /\ inFlight = <<>>
    /\ cmCalls = 0
    /\ cmDone = 0
    /\ lastStart = NoOp
    /\ cmResult = NoOp
    /\ agents = Registered

\* processMessage(userMessage) up to its await
AnalyzeMessage ==
    /\ cmCalls = 0
    /\ \E userMessage \in Messages :
          Started(userMessage, Switched(context, userMessage, agents))

NextIntent == AnalyzeMessage

SpecIntent == InitIntent /\ [][NextIntent]_vars

(***************************************************************************)
(* Specification SpecRegistry: a chat session of a manager built with any  *)
(* set of agents.  The constructor in the source registers all five; the   *)
(* branches for an agent that is missing are run only here.                *)
(***************************************************************************)
InitRegistry ==
    /\ aiResponse = <<>>
    /\ agentResult = NoResult
    /\ PSIdle
    /\ ChatIdle
    /\ UIIdle
    /\ context = InitialContext
    /\ inFlight = <<>>
    /\ cmCalls = 0
    /\ cmDone = 0
    /\ lastStart = NoOp
    /\ cmResult = NoOp
    /\ agents \in SUBSET AgentTypes

SpecRegistry == InitRegistry /\ [][NextCM]_vars

(***************************************************************************)
(* The manager's claims                                                    *)
(***************************************************************************)
KeywordsOf(g) ==
    CASE g = "goal" -> GoalKeywords
      [] g = "educational" -> EducationalKeywords
      [] g = "discovery" -> DiscoveryKeywords
      [] g = "refinement" -> RefinementKeywords

\* Goal > Educational > Discovery > Refinement
Rank(g) ==
    CASE g = "goal" -> 1
      [] g = "educational" -> 2
      [] g = "discovery" -> 3
      [] g = "refinement" -> 4

\* the keyword groups of which the message, lower-cased, holds a keyword
Matches(msg) ==
    {g \in {"goal", "educational", "discovery", "refinement"} :
        \E k \in 1..Len(msg), kw \in KeywordsOf(g) :
            WordIncludes(WordToLower(msg[k]), kw)}

\* C7 as stated: with targetPersonaId set, every message is routed to the
\* Refinement agent.
C7_TargetRoutesAnyMessage ==
    (lastStart.op = "processMessage" /\ lastStart.targetBefore # Undefined)
        => lastStart.agent = "refinement"

\* C7: with targetPersonaId set, every message that holds no Goal,
\* Educational or Discovery keyword is routed to the Refinement agent, also
\* when it holds no Refinement keyword.
C7_TargetRoutesKeywordless ==
    (/\ lastStart.op = "processMessage"
     /\ lastStart.targetBefore # Undefined
     /\ Matches(lastStart.msg) \subseteq {"refinement"})
        => lastStart.agent = "refinement"

\* a message without any keyword was routed from the Goal agent to the
\* Refinement agent because a persona was targeted
C7_Witness ==
    /\ lastStart.op = "processMessage"
    /\ lastStart.targetBefore # Undefined
    /\ Matches(lastStart.msg) = {}
    /\ lastStart.agentBefore = "goal"
    /\ lastStart.agent = "refinement"

\* C8: a message that holds keywords of one or several groups is routed to
\* the agent of the matching group that is highest in Goal > Educational >
\* Discovery > Refinement, whatever the current agent and wherever the
\* keywords stand in the message.
C8_HighestPriorityGroupWins ==
    (lastStart.op = "processMessage" /\ Matches(lastStart.msg) # {})
        => /\ lastStart.agent \in Matches(lastStart.msg)
           /\ \A g \in Matches(lastStart.msg) : Rank(lastStart.agent) <= Rank(g)

\* a message with keywords of two groups, the winning one not in its first
\* word, moved the session to another agent
C8_Witness ==
    /\ lastStart.op = "processMessage"
    /\ Cardinality(Matches(lastStart.msg)) >= 2
    /\ lastStart.agent \notin Matches(<<lastStart.msg[1]>>)
    /\ lastStart.agent # lastStart.agentBefore
    /\ lastStart.agentBefore # "educational"

\* C9: a message without keywords, with no persona targeted, leaves the
\* current agent as it is when that agent is registered; analyzeIntent
\* answers Educational only for a current agent that is not registered.
C9_NoKeywordKeepsAgent ==
    (/\ lastStart.op = "processMessage"
     /\ Matches(lastStart.msg) = {}
     /\ lastStart.targetBefore = Undefined)
        => /\ lastStart.agentBefore \in Registered
           /\ lastStart.agent = lastStart.agentBefore
           /\ \A registry \in SUBSET AgentTypes :
                 AnalyzeIntent(lastStart.msg,
                               [currentAgentType |-> lastStart.agentBefore,
                                targetPersonaId |-> Undefined],
                               registry)
                   = IF lastStart.agentBefore \in registry THEN lastStart.agentBefore
                     ELSE "educational"

\* a message without keywords left a session on the Goal agent
C9_Witness ==
    /\ lastStart.op = "processMessage"
    /\ Matches(lastStart.msg) = {}
    /\ lastStart.targetBefore = Undefined
    /\ lastStart.agentBefore = "goal"
    /\ lastStart.agent = "goal"
    /\ context.currentAgentType = "goal"

\* the message of the exception each failure of the LLM call raises
FailureMessage(kind) ==
    CASE kind = "httpError" ->
           <<"API call failed: ", "500", " ", "Internal Server Error">>
      [] kind = "noReply" -> <<"No reply received from AI service">>
      [] kind = "fetchRejected" -> <<"Failed to fetch">>
      [] kind = "notText" -> <<"aiResponse.replace is not a function">>

\* C10: a processMessage call whose LLM call fails (non-OK response, missing
\* reply, rejected fetch) or whose reply cannot be parsed resolves, to the
\* apology text with the exception's message, no persona actions and empty
\* contextUpdates; neither its start nor its end changes
\* conversationHistory, targetPersonaId or temporaryState.
C10_FailureDegradesToApology ==
    [][/\ (cmDone' = cmDone + 1 /\ cmResult'.kind \in FailureKinds)
          => /\ cmResult'.settled = "resolved"
             /\ cmResult'.result.userResponse =
                  <<"I apologize, but I encountered an error processing your message. Could you try rephrasing your question? (Error: ">>
                  \o FailureMessage(cmResult'.kind) \o <<")">>
             /\ cmResult'.result.personaActions = <<>>
             /\ cmResult'.result.contextUpdates = EmptyObj
             /\ context'.conversationHistory = context.conversationHistory
             /\ context'.targetPersonaId = context.targetPersonaId
             /\ context'.temporaryState = context.temporaryState
       /\ (Len(inFlight') = Len(inFlight) + 1)
          => /\ context'.conversationHistory = context.conversationHistory
             /\ context'.targetPersonaId = context.targetPersonaId
             /\ context'.temporaryState = context.temporaryState]_vars

\* a call failed in a session that had a history, and the history is there
C10_Witness ==
    /\ cmResult.op = "processMessage"
    /\ cmResult.kind \in FailureKinds
    /\ cmResult.settled = "resolved"
    /\ Len(context.conversationHistory) = 2
    /\ cmDone = 2

\* p is a prefix of q
IsPrefix(p, q) == Len(p) <= Len(q) /\ SubSeq(q, 1, Len(p)) = p

\* C16: across every operation of the manager the conversationHistory before
\* the operation is a prefix of the conversationHistory after it.
C16_HistoryAppendOnly ==
    [][IsPrefix(context.conversationHistory, context'.conversationHistory)]_vars

\* this step is the start of a processMessage call
StartStep ==
    /\ cmCalls' = cmCalls + 1
    /\ Len(inFlight') > Len(inFlight) \/ cmDone' = cmDone + 1

CannedReply ==
    <<"I'm having trouble understanding your request right now. Let me help you with persona discovery instead. What would you like to explore about yourself?">>

\* C18: when no agent is registered for the type analyzeIntent selected (and
\* Discovery or Educational is registered), processMessage makes no LLM call,
\* resolves with the canned reply and no persona action, sets
\* currentAgentType to Discovery, or to Educational when Discovery is not
\* registered, and leaves conversationHistory as it was.
C18_MissingAgentFallsBack ==
    [][(/\ StartStep
        /\ lastStart'.agent \notin agents
        /\ {"discovery", "educational"} \cap agents # {})
          => /\ inFlight' = inFlight
             /\ cmResult'.settled = "resolved"
             /\ cmResult'.result.userResponse = CannedReply
             /\ cmResult'.result.personaActions = <<>>
             /\ context'.currentAgentType =
                  (IF "discovery" \in agents THEN "discovery" ELSE "educational")
             /\ context'.conversationHistory = context.conversationHistory]_vars

\* a call for an agent that is missing fell back to Educational, in a session
\* that had a history
C18_Witness ==
    /\ cmResult.op = "processMessage"
    /\ cmResult.kind = "missingAgent"
    /\ lastStart.agent \notin agents
    /\ "discovery" \notin agents
    /\ context.currentAgentType = "educational"
    /\ cmResult.result.userResponse = CannedReply
    /\ Len(context.conversationHistory) = 2

\* the history a request carried: what lies between the system prompt and
\* the new user message
HistoryOf(request) == SubSeq(request, 2, Len(request) - 1)

\* a processMessage call has just reached its await of the LLM
TurnStarts == Len(inFlight') = Len(inFlight) + 1

\* a processMessage call has just resolved with the agent's result
TurnSucceeds == cmDone' = cmDone + 1 /\ cmResult'.kind = "ok"

\* C19: the LLM of a turn is called with the system prompt of the agent
\* selected for the message, the history before the turn and the new user
\* message, in this order; a successful turn leaves conversationHistory as
\* the history before the turn followed by the user message (from 'user')
\* and the agent's userResponse (from 'coach').
C19_TurnExtendsHistory ==
    [][/\ TurnStarts
          => inFlight'[Len(inFlight')].request =
               <<[from |-> "system",
                  text |-> GenerateSystemPrompt(
                             AnalyzeIntent(lastStart'.msg, context, agents),
                             context')]>>
               \o context.conversationHistory
               \o <<[from |-> "user", text |-> lastStart'.msg]>>
       /\ TurnSucceeds
          => \E i \in 1..Len(inFlight) :
                /\ inFlight' = Splice(inFlight, i)
                /\ inFlight[i].msg = cmResult'.msg
                /\ context'.conversationHistory =
                     HistoryOf(inFlight[i].request)
                     \o <<[from |-> "user", text |-> cmResult'.msg],
                          [from |-> "coach",
                           text |-> cmResult'.result.userResponse]>>]_vars

\* the keys of temporaryState an agent's processResponse writes
WrittenKeys(type) ==
    CASE type = "educational" -> {"educationalTopics"}
      [] type = "refinement" -> {"lastRefinementSession"}
      [] type = "management" -> {"lastManagementSession", "managementFocus"}
      [] type = "goal" -> {"goalSettingActive"}
      [] OTHER -> {}

\* every entry of temporaryState but those under keys is in the next state
\* as it is now
EntriesKept(keys) ==
    \A key \in DOMAIN context.temporaryState \ keys :
        /\ key \in DOMAIN context'.temporaryState
        /\ context'.temporaryState[key] = context.temporaryState[key]

\* C23: a successful processMessage turn drops no entry of temporaryState:
\* its start leaves every entry as it is, and when it resolves every key
\* that was in temporaryState is still there with its value, unless the
\* turn's agent wrote that key.
C23_TemporaryStateKept ==
    [][/\ TurnStarts => EntriesKept({})
       /\ TurnSucceeds
          => \E i \in 1..Len(inFlight) :
                /\ inFlight' = Splice(inFlight, i)
                /\ inFlight[i].msg = cmResult'.msg
                /\ EntriesKept(WrittenKeys(inFlight[i].agent))]_vars

\* two turns of different agents have resolved and the entry of the first
\* is there beside the entry of the second
C23_Witness ==
    /\ cmDone = 2
    /\ cmResult.op = "processMessage"
    /\ cmResult.kind = "ok"
    /\ DOMAIN context.temporaryState =
         {"goalSettingActive", "lastRefinementSession"}
    /\ context.currentAgentType = "goal"

\* the goal-setting context of setTargetPersonaForGoals is in force: no other
\* target and no other agent has been selected since
InGoalContext ==
    /\ context.currentAgentType = "goal"
    /\ ToString(context.targetPersona) # ToString(Undefined)
    /\ context.targetPersonaId = context.targetPersona.id

\* the message holds no keyword of analyzeIntent
NoKeyword(userMessage) ==
    ~IncludesAny(ToLowerCase(userMessage),
                 GoalKeywords \cup EducationalKeywords \cup DiscoveryKeywords
                   \cup RefinementKeywords)

\* C24: in the goal-setting context a processMessage whose text holds no
\* Goal, Educational, Discovery or Refinement keyword is handled by the Goal
\* agent, and currentAgentType stays goal.
C24_GoalContextSticks ==
    [][(TurnStarts /\ InGoalContext /\ NoKeyword(lastStart'.msg))
         => /\ lastStart'.agent = "goal"
            /\ context'.currentAgentType = "goal"]_vars

\* the failures of the LLM call itself
LlmFailures == {"httpError", "noReply", "fetchRejected"}

\* a processMessage call whose LLM call failed has just settled
LlmCallFailed == cmDone' = cmDone + 1 /\ cmResult'.kind \in LlmFailures

\* C25 as stated: when the LLM call of a message fails, sendMessage resolves
\* with success = false and error set, never with success = true and the
\* apology as coachReply.
C25_LlmFailureReported ==
    [][LlmCallFailed
         => /\ SendMessageReturn(cmResult').success = FALSE
            /\ "error" \in DOMAIN SendMessageReturn(cmResult')]_vars

\* C25: when the LLM call of a message fails, sendMessage resolves with
\* success = true, the apology text that carries the exception's message as
\* coachReply, no persona actions and no error field.
C25_LlmFailureIsApologyReply ==
    [][LlmCallFailed
         => /\ SendMessageReturn(cmResult').success = TRUE
            /\ SendMessageReturn(cmResult').coachReply =
                 <<"I apologize, but I encountered an error processing your message. Could you try rephrasing your question? (Error: ">>
                 \o FailureMessage(cmResult'.kind) \o <<")">>
            /\ SendMessageReturn(cmResult').personaActions = <<>>
            /\ "error" \notin DOMAIN SendMessageReturn(cmResult')]_vars

\* the endpoint answered 500 and sendMessage has the apology as its reply
C25_Witness ==
    /\ cmResult.op = "processMessage"
    /\ cmResult.kind = "httpError"
    /\ SendMessageReturn(cmResult).success = TRUE
    /\ SendMessageReturn(cmResult).coachReply[2] = "API call failed: "

PairOf(userMessage, userResponse) ==
    <<[from |-> "user", text |-> userMessage],
      [from |-> "coach", text |-> userResponse]>>

\* a processMessage call has just settled, with or without a reply
TurnSettles == cmDone' = cmDone + 1

\* C28: overlapping processMessage calls lose no history.  Every call that
\* resolves with its agent's result leaves conversationHistory as it was
\* just before followed by its own user message and its own coach reply, in
\* whatever order the calls settle; a call that fails leaves it as it was.
\* Two overlapping calls that both succeed so add four messages.
C28_OverlappingCallsLoseNoHistory ==
    [][TurnSettles
         => context'.conversationHistory =
              IF TurnSucceeds
              THEN context.conversationHistory
                   \o PairOf(cmResult'.msg, cmResult'.result.userResponse)
              ELSE context.conversationHistory]_vars

\* the second call was started while the first awaited the LLM; both have
\* resolved and the history holds the two pairs
C28_Witness ==
    /\ lastStart.op = "processMessage"
    /\ lastStart.overlaps
    /\ cmDone = 2
    /\ inFlight = <<>>
    /\ Len(context.conversationHistory) = 4
    /\ context.conversationHistory[1].from = "user"
    /\ context.conversationHistory[2].from = "coach"
    /\ context.conversationHistory[3].from = "user"
    /\ context.conversationHistory[3].text = lastStart.msg
    /\ context.conversationHistory[1].text # lastStart.msg
    /\ context.conversationHistory[4].from = "coach"

(***************************************************************************)
(* ChatService: message persistence.  A message is its number, in the      *)
(* order of creation.  SpecChat covers one conversation after              *)
(* initialize(): either a conversation was loaded or the service fell back *)
(* to local only (currentConversationId null).  processMessage never       *)
(* rejects, so the catch of sendMessage is not entered.  SpecConversations *)
(* adds startGoalConversation, which replaces the conversation.            *)
(***************************************************************************)
MaxMessages == 4

ConversationIds == {Null, "conv-1"}

\* saveMessageToBackend: the negation of its first test
CanPost(convId, online) == convId # Null /\ online

\* the sendMessage calls that have not created their coach message yet
AwaitingReply == {s \in sends : s.coach = 0}

\* a is in front of b in the sequence q
InOrder(a, b, q) == \E i, j \in 1..Len(q) : i < j /\ q[i] = a /\ q[j] = b

SaveFailedDropsMessage(queue) ==
    /\ UNCHANGED pendingMessages
    /\ isOnline' = FALSE
    /\ retryTimers' = retryTimers + 1

\* saveMessageToBackend, the catch: queue, go offline, schedule a retry
SaveFailed(queue) ==
    /\ pendingMessages' = pendingMessages \o queue
    /\ isOnline' = FALSE
    /\ retryTimers' = retryTimers + 1

\* sendMessage returns
SendReturned(s) ==
    [op |-> "sendMessage", settled |-> "resolved", success |-> TRUE,
     user |-> s.user, coach |-> s.coach, offline |-> s.offline, down |-> s.down]

InitChat ==
    /\ aiResponse = <<>>
    /\ agentResult = NoResult
    /\ PSIdle
    /\ CMIdle
    /\ UIIdle
    /\ currentConversationId \in ConversationIds
    /\ isOnline = TRUE
    /\ pendingMessages = <<>>
    /\ backendUp \in BOOLEAN
    /\ posted = <<>>
    /\ retryTimers = 0
    /\ probing = 0
    /\ draining = {}
    /\ sends = {}
    /\ nextMsg = 1
    /\ chatResult = NoOp
    /\ convLog = NoConvLog

\* the message m is created now, and its POST starts at once if post holds
Created(m, post) ==
    [convLog EXCEPT !.createdIn = Append(@, currentConversationId),
                    !.target = IF post THEN @ \cup {<<m, currentConversationId>>}
                               ELSE @]

\* the POST of the message m has settled, accepted or not
PostSettled(log, m, accepted) ==
    [log EXCEPT !.target = {t \in @ : t[1] # m},
                !.postedIn = IF accepted
                             THEN @ \cup {t \in log.target : t[1] = m}
                             ELSE @]

\* the POST of the message m starts: the URL holds this.currentConversationId
PostStarts(log, m) ==
    [log EXCEPT !.target = @ \cup {<<m, currentConversationId>>}]

\* sendMessage up to its first await that waits for the network
ChatSendMessage ==
    /\ nextMsg + Cardinality(AwaitingReply) + 1 <= MaxMessages
    /\ nextMsg' = nextMsg + 1
    /\ convLog' = Created(nextMsg, CanPost(currentConversationId, isOnline))
    /\ IF CanPost(currentConversationId, isOnline)
       THEN /\ sends' = sends \cup {[user |-> nextMsg, coach |-> 0, pc |-> "saveUser",
                                     offline |-> FALSE, down |-> ~backendUp]}
            /\ UNCHANGED pendingMessages
       ELSE /\ sends' = sends \cup {[user |-> nextMsg, coach |-> 0, pc |-> "process",
                                     offline |-> ~isOnline, down |-> ~backendUp]}
            /\ pendingMessages' = Append(pendingMessages, nextMsg)
    /\ UNCHANGED <<currentConversationId, isOnline, backendUp, posted, retryTimers,
                   probing, draining, chatResult>>
    /\ UNCHANGED <<parseVars, psVars, cmVars, uiVars>>

\* the POST of the user message settles; sendMessage goes on to processMessage
UserPostSettles ==
    /\ \E s \in sends :
         /\ s.pc = "saveUser"
         /\ convLog' = PostSettled(convLog, s.user, backendUp)
         /\ IF backendUp
            THEN /\ posted' = Append(posted, s.user)
                 /\ sends' = (sends \ {s}) \cup {[s EXCEPT !.pc = "process"]}
                 /\ UNCHANGED <<pendingMessages, isOnline, retryTimers>>
            ELSE /\ SaveFailed(<<s.user>>)
                 /\ sends' = (sends \ {s}) \cup
                                {[s EXCEPT !.pc = "process", !.offline = TRUE]}
                 /\ UNCHANGED posted
    /\ UNCHANGED <<currentConversationId, backendUp, probing, draining, nextMsg,
                   chatResult>>
    /\ UNCHANGED <<parseVars, psVars, cmVars, uiVars>>

\* processMessage resolves: the coach message is created and saved
ReplyArrives ==
    /\ \E s \in sends :
         /\ s.pc = "process"
         /\ nextMsg' = nextMsg + 1
         /\ convLog' = Created(nextMsg, CanPost(currentConversationId, isOnline))
         /\ IF CanPost(currentConversationId, isOnline)
            THEN /\ sends' = (sends \ {s}) \cup
                                {[s EXCEPT !.pc = "saveCoach", !.coach = nextMsg]}
                 /\ UNCHANGED <<pendingMessages, chatResult>>
            ELSE /\ sends' = sends \ {s}
                 /\ pendingMessages' = Append(pendingMessages, nextMsg)
                 /\ chatResult' = SendReturned([s EXCEPT !.coach = nextMsg])
    /\ UNCHANGED <<currentConversationId, isOnline, backendUp, posted, retryTimers,
                   probing, draining>>
    /\ UNCHANGED <<parseVars, psVars, cmVars, uiVars>>

\* the POST of the coach message settles and sendMessage returns
CoachPostSettles ==
    /\ \E s \in sends :
         /\ s.pc = "saveCoach"
         /\ sends' = sends \ {s}
         /\ convLog' = PostSettled(convLog, s.coach, backendUp)
         /\ chatResult' = SendReturned(s)
         /\ IF backendUp
            THEN /\ posted' = Append(posted, s.coach)
                 /\ UNCHANGED <<pendingMessages, isOnline, retryTimers>>
            ELSE /\ SaveFailed(<<s.coach>>)
                 /\ UNCHANGED posted
    /\ UNCHANGED <<currentConversationId, backendUp, probing, draining, nextMsg>>
    /\ UNCHANGED <<parseVars, psVars, cmVars, uiVars>>

\* a retry timer fires: retryPendingMessages up to its probe
TimerFires ==
    /\ retryTimers > 0
    /\ retryTimers' = retryTimers - 1
    /\ IF pendingMessages = <<>>
       THEN isOnline' = TRUE /\ UNCHANGED probing
       ELSE probing' = probing + 1 /\ UNCHANGED isOnline
    /\ UNCHANGED <<currentConversationId, pendingMessages, backendUp, posted,
                   draining, sends, nextMsg, chatResult, convLog>>
    /\ UNCHANGED <<parseVars, psVars, cmVars, uiVars>>

\* the probe settles: on success the queue is taken over as messagesToSave and
\* the first message is saved; without a conversation every message is queued
\* again at once; on failure the next timer is scheduled
ProbeSettles ==
    /\ probing > 0
    /\ probing' = probing - 1
    /\ IF backendUp
       THEN /\ isOnline' = TRUE
            /\ UNCHANGED retryTimers
            /\ IF currentConversationId # Null /\ pendingMessages # <<>>
               THEN /\ pendingMessages' = <<>>
                    /\ draining' = draining \cup {pendingMessages}
                    /\ convLog' = PostStarts(convLog, Head(pendingMessages))
               ELSE UNCHANGED <<pendingMessages, draining, convLog>>
       ELSE /\ retryTimers' = retryTimers + 1
            /\ UNCHANGED <<isOnline, pendingMessages, draining, convLog>>
    /\ UNCHANGED <<currentConversationId, backendUp, posted, sends, nextMsg,
                   chatResult>>
    /\ UNCHANGED <<parseVars, psVars, cmVars, uiVars>>

\* the loop of retryPendingMessages ending when the service is offline
DrainGoesOnForgetsRest(todo) ==
    IF Tail(todo) = <<>>
    THEN draining' = draining \ {todo} /\ UNCHANGED pendingMessages
    ELSE IF CanPost(currentConversationId, isOnline)
         THEN /\ draining' = (draining \ {todo}) \cup {Tail(todo)}
              /\ UNCHANGED pendingMessages
         ELSE /\ draining' = draining \ {todo}
              /\ UNCHANGED pendingMessages

\* the loop of retryPendingMessages after the POST of Head(todo) was accepted:
\* the next message is posted, or it and all after it are queued again
DrainGoesOn(todo) ==
    IF Tail(todo) = <<>>
    THEN draining' = draining \ {todo} /\ UNCHANGED pendingMessages
    ELSE IF CanPost(currentConversationId, isOnline)
         THEN /\ draining' = (draining \ {todo}) \cup {Tail(todo)}
              /\ UNCHANGED pendingMessages
         ELSE /\ draining' = draining \ {todo}
              /\ pendingMessages' = pendingMessages \o Tail(todo)

\* the POST of a message of messagesToSave settles; after a failure the
\* service is offline and the rest of messagesToSave is queued again
DrainPostSettles ==
    /\ \E todo \in draining :
         IF backendUp
         THEN /\ posted' = Append(posted, Head(todo))
              /\ DrainGoesOn(todo)
              /\ convLog' =
                   IF Tail(todo) # <<>> /\ CanPost(currentConversationId, isOnline)
                   THEN PostStarts(PostSettled(convLog, Head(todo), TRUE),
                                   Head(Tail(todo)))
                   ELSE PostSettled(convLog, Head(todo), TRUE)
              /\ UNCHANGED <<isOnline, retryTimers>>
         ELSE /\ SaveFailed(todo)
              /\ draining' = draining \ {todo}
              /\ convLog' = PostSettled(convLog, Head(todo), FALSE)
              /\ UNCHANGED posted
    /\ UNCHANGED <<currentConversationId, backendUp, probing, sends, nextMsg,
                   chatResult>>
    /\ UNCHANGED <<parseVars, psVars, cmVars, uiVars>>

\* the backend becomes unreachable
BackendGoesDown ==
    /\ backendUp
    /\ backendUp' = FALSE
    /\ UNCHANGED <<currentConversationId, isOnline, pendingMessages, posted,
                   retryTimers, probing, draining, sends, nextMsg, chatResult,
                   convLog>>
    /\ UNCHANGED <<parseVars, psVars, cmVars, uiVars>>

\* the backend becomes reachable; the calls in flight have seen it reachable
BackendComesUp ==
    /\ ~backendUp
    /\ backendUp' = TRUE
    /\ sends' = {[s EXCEPT !.down = FALSE] : s \in sends}
    /\ UNCHANGED <<currentConversationId, isOnline, pendingMessages, posted,
                   retryTimers, probing, draining, nextMsg, chatResult, convLog>>
    /\ UNCHANGED <<parseVars, psVars, cmVars, uiVars>>

NextChat ==
    \/ ChatSendMessage
    \/ UserPostSettles
    \/ ReplyArrives
    \/ CoachPostSettles
    \/ TimerFires
    \/ ProbeSettles
    \/ DrainPostSettles
    \/ BackendGoesDown
    \/ BackendComesUp

SpecChat == InitChat /\ [][NextChat]_vars

\* conversations started in mid-session
MaxStarts == 1

\* startGoalConversation(persona) of a signed-in user, from setupGoalContext
\* to the answer to its POST /conversations: the new conversation's id, or
\* null when the request fails; pendingMessages is left as it is
StartGoalConversation ==
    /\ convLog.started < MaxStarts
    /\ convLog' = [convLog EXCEPT !.started = @ + 1]
    /\ currentConversationId' = IF backendUp THEN "conv-2" ELSE Null
    /\ \E p \in TargetPersonas :
          context' = [context EXCEPT !.targetPersonaId = p.id,
                                     !.targetPersona = p,
                                     !.currentAgentType = "goal",
                                     !.conversationHistory = <<>>]
    /\ UNCHANGED <<isOnline, pendingMessages, backendUp, posted, retryTimers,
                   probing, draining, sends, nextMsg, chatResult>>
    /\ UNCHANGED <<inFlight, cmCalls, cmDone, lastStart, cmResult, agents>>
    /\ UNCHANGED <<parseVars, psVars, uiVars>>

NextConversations ==
    \/ NextChat
    \/ StartGoalConversation

\* the chat service with a conversation started in mid-session
SpecConversations == InitChat /\ [][NextConversations]_vars

\* every request settles and every scheduled timer fires
SpecChatFair ==
    /\ SpecChat
    /\ WF_vars(UserPostSettles)
    /\ WF_vars(ReplyArrives)
    /\ WF_vars(CoachPostSettles)
    /\ WF_vars(TimerFires)
    /\ WF_vars(ProbeSettles)
    /\ WF_vars(DrainPostSettles)

(***************************************************************************)
(* The chat service's claims                                               *)
(***************************************************************************)
\* a sendMessage call returns in this step
SendReturns == chatResult'.op = "sendMessage" /\ chatResult' # chatResult

\* C11 as stated: a sendMessage call whose user-message POST failed or that
\* found isOnline false resolves, and when it returns pendingMessages holds
\* its user message in front of its coach reply.
C11_OfflineSendQueuesBoth ==
    [][(SendReturns /\ chatResult'.offline)
          => /\ chatResult'.settled = "resolved"
             /\ InOrder(chatResult'.user, chatResult'.coach, pendingMessages')]_vars

\* C11 amended: a sendMessage call during which the backend is unreachable
\* from the call to its return resolves, and when it returns pendingMessages
\* holds its user message in front of its coach reply.
C11_UnreachableSendQueuesBoth ==
    [][(SendReturns /\ chatResult'.down)
          => /\ chatResult'.settled = "resolved"
             /\ InOrder(chatResult'.user, chatResult'.coach, pendingMessages')]_vars

\* a call whose user-message POST failed has returned with both messages queued
C11_Witness ==
    /\ chatResult.op = "sendMessage"
    /\ chatResult.down
    /\ chatResult.offline
    /\ currentConversationId # Null
    /\ InOrder(chatResult.user, chatResult.coach, pendingMessages)

\* C12: the messages the backend has accepted are in the order of their
\* creation, whatever the interleaving of sends, failed saves, timers and drains.
C12_PostedInCreationOrder ==
    \A i, j \in 1..Len(posted) : i < j => posted[i] < posted[j]

\* C13: if from some point on the backend stays reachable (and requests settle
\* and timers fire), then eventually pendingMessages is empty and isOnline is
\* true for good, whatever caused a message to be queued.
C13_PendingEventuallyPosted ==
    (<>[]backendUp) => <>[](pendingMessages = <<>> /\ isOnline)

\* the places that hold the message m: a position of the backend's log, a
\* position of the queue, a sendMessage call that awaits the POST of m, or a
\* position of the messagesToSave of a retry run
PlacesOf(m) ==
    {<<"posted", i>> : i \in {k \in 1..Len(posted) : posted[k] = m}}
    \cup {<<"pending", i>> : i \in {k \in 1..Len(pendingMessages) :
                                      pendingMessages[k] = m}}
    \cup {<<"save", s.user>> : s \in {x \in sends : x.pc = "saveUser" /\ x.user = m}}
    \cup {<<"save", s.coach>> : s \in {x \in sends : x.pc = "saveCoach" /\ x.coach = m}}
    \cup UNION {{<<"drain", todo, i>> : i \in {k \in 1..Len(todo) : todo[k] = m}} :
                  todo \in draining}

\* C27: every message handed to saveMessageToBackend is in exactly one place:
\* accepted by the backend once, in pendingMessages once, or held by a save
\* or a retry run in flight.
C27_QueueKeepsEveryMessageOnce ==
    \A m \in 1..(nextMsg - 1) : Cardinality(PlacesOf(m)) = 1

\* C26: every message the backend has accepted was posted to the
\* conversation that was current when the message was created, also after
\* startGoalConversation has replaced currentConversationId.
C26_PostedToOwnConversation ==
    \A t \in convLog.postedIn : t[2] = convLog.createdIn[t[1]]

\* a retry run has taken the queue over while a message that was queued
\* before is already accepted and a later one waits in the queue again
C27_Witness ==
    /\ draining # {}
    /\ posted # <<>>
    /\ pendingMessages # <<>>
    /\ retryTimers > 0

(***************************************************************************)
(* SetupIdentityPage: debounced persona edits.  Time advances in ticks; a  *)
(* timer fires when it is due, before time goes on.  The value of an edit  *)
(* is the number of the edit.                                              *)
(***************************************************************************)
\* setTimeout(..., 1000), in ticks of 500 ms
QuietInterval == 2

MaxEdits == 3

MaxTime == 5

\* clearTimeout(existingTimeout), a no-op for a timer that has fired
ClearTimeout(ts, id) == {t \in ts : t.id # id}

InitDebounce ==
    /\ aiResponse = <<>>
    /\ agentResult = NoResult
    /\ PSIdle
    /\ CMIdle
    /\ ChatIdle
    /\ UIIdle

\* updatePersona(id, field, value) of the page: one keystroke
Edit ==
    /\ nextTimer <= MaxEdits
    /\ \E k \in Keys :
         /\ edited' = [edited EXCEPT ![k] = [value |-> nextTimer, at |-> timeNow]]
         /\ timeouts' =
              (IF updateTimeouts[k] # 0
               THEN ClearTimeout(timeouts, updateTimeouts[k])
               ELSE timeouts)
              \cup {[id |-> nextTimer, key |-> k, value |-> nextTimer,
                     due |-> timeNow + QuietInterval]}
         /\ updateTimeouts' = [updateTimeouts EXCEPT ![k] = nextTimer]
    /\ nextTimer' = nextTimer + 1
    /\ UNCHANGED <<timeNow, saving, updateCalls>>
    /\ UNCHANGED <<parseVars, psVars, cmVars, chatVars, gpVars>>

\* a timer fires: its callback calls personaService.updatePersona and awaits it
TimeoutFires ==
    /\ \E t \in timeouts :
         /\ t.due <= timeNow
         /\ timeouts' = timeouts \ {t}
         /\ updateCalls' = Append(updateCalls,
                                  [key |-> t.key, value |-> t.value, at |-> timeNow,
                                   latest |-> edited[t.key]])
         /\ saving' = saving \cup {[id |-> t.id, key |-> t.key]}
    /\ UNCHANGED <<timeNow, updateTimeouts, edited, nextTimer>>
    /\ UNCHANGED <<parseVars, psVars, cmVars, chatVars, gpVars>>

\* updatePersona has settled: the callback deletes the key's entry
SaveSettles ==
    /\ \E c \in saving :
         /\ saving' = saving \ {c}
         /\ updateTimeouts' = [updateTimeouts EXCEPT ![c.key] = 0]
    /\ UNCHANGED <<timeNow, timeouts, updateCalls, edited, nextTimer>>
    /\ UNCHANGED <<parseVars, psVars, cmVars, chatVars, gpVars>>

\* time goes on when no timer is due
Tick ==
    /\ timeNow < MaxTime
    /\ \A t \in timeouts : t.due > timeNow
    /\ timeNow' = timeNow + 1
    /\ UNCHANGED <<timeouts, updateTimeouts, saving, updateCalls, edited, nextTimer>>
    /\ UNCHANGED <<parseVars, psVars, cmVars, chatVars, gpVars>>

NextDebounce ==
    \/ Edit
    \/ TimeoutFires
    \/ SaveSettles
    \/ Tick

SpecDebounce == InitDebounce /\ [][NextDebounce]_vars

(***************************************************************************)
(* The setup page's claim                                                  *)
(***************************************************************************)
TimersOf(ts, k) == {t \in ts : t.key = k}

\* this step is an edit of the key k
EditOf(k) == edited'[k] # edited[k]

MaxGoalSends == 2

\* clicks on Delete per session
MaxDeletes == 2

\* what getPersonaGoals has answered when the page has loaded
LoadedGoals ==
    { <<>>,
      <<[id |-> "g1", name |-> <<"Run">>]>>,
      <<[id |-> "g1", name |-> <<"Run", " ">>], [id |-> "g2", name |-> <<"Swim">>]>> }

UpdateAction(originalName, name) ==
    [type |-> "update", originalName |-> originalName, name |-> name,
     acceptanceCriteria |-> <<"c">>, reviewDate |-> <<"d">>]

CreateAction(name) ==
    [type |-> "create", name |-> name,
     acceptanceCriteria |-> <<"c">>, reviewDate |-> <<"d">>]

\* result.goalActions of the replies of a session: none, an update of a goal
\* under its name in lower case, an update without an original name, a goal
\* created and updated in one reply, two updates
GoalActionLists ==
    { <<>>,
      <<UpdateAction(<<"run">>, <<"Jog">>)>>,
      <<UpdateAction(<<>>, <<"Jog">>)>>,
      <<CreateAction(<<"Swim">>), UpdateAction(<<"Swim">>, <<"Dive">>)>>,
      <<UpdateAction(<<"Swim">>, <<"Dive">>), UpdateAction(<<"run">>, <<"Jog">>)>> }

\* g.name.toLowerCase().trim() === goalAction.originalName?.toLowerCase().trim()
NameMatches(g, originalName) ==
    Trim(ToLowerCase(g.name)) = Trim(ToLowerCase(originalName))

\* goals.find(g => ...): the index of the first match, 0 for undefined
FindGoal(gs, originalName) ==
    SetMin({k \in 1..Len(gs) : NameMatches(gs[k], originalName)} \cup {Len(gs) + 1})
      % (Len(gs) + 1)

\* `Could not find goal "${goalAction.originalName}" to update.`
CouldNotFind(originalName) ==
    <<"Could not find goal \"">> \o originalName \o <<"\" to update.">>

\* prev.map(g => g.id === id ? updatedGoal : g)
ReplaceGoal(gs, id, updatedGoal) ==
    [k \in 1..Len(gs) |-> IF gs[k].id = id THEN updatedGoal ELSE gs[k]]

\* prev.filter(g => g.id !== goalId)
WithoutGoal(gs, id) == SelectSeq(gs, LAMBDA g : g.id # id)

NewGoalIds == <<"g3", "g4", "g5", "g6">>

\* the calls of the API that have not settled
Unsettled(op) ==
    {k \in 1..Len(goalRequests) : goalRequests[k].op = op /\ ~goalRequests[k].done}

CountOf(log, op) == Cardinality({k \in 1..Len(log) : log[k].op = op})

\* no handler is in a synchronous stretch
Quiescent == IF handler.op = "none" THEN TRUE ELSE handler.pc # "loop"

InitGoals ==
    /\ aiResponse = <<>>
    /\ agentResult = NoResult
    /\ PSIdle
    /\ CMIdle
    /\ ChatIdle
    /\ DebounceIdle
    /\ goals \in LoadedGoals
    /\ error = NoBanner
    /\ goalRequests = <<>>
    /\ handler = NoOp
    /\ handled = <<>>
    /\ nextGoalId = 1

\* sendMessage up to its await of chatService.sendMessage
GoalsSendMessage ==
    /\ handler = NoOp
    /\ CountOf(handled, "send") < MaxGoalSends
    /\ error' = NoBanner
    /\ handler' = [op |-> "sendMessage", pc |-> "awaitSend", goals |-> goals,
                   todo |-> <<>>]
    /\ handled' = Append(handled, [op |-> "send"])
    /\ UNCHANGED <<goals, goalRequests, nextGoalId>>
    /\ UNCHANGED <<parseVars, psVars, cmVars, chatVars, dbVars>>

\* chatService.sendMessage has resolved with goalActions
SendResolves ==
    /\ handler.op = "sendMessage"
    /\ handler.pc = "awaitSend"
    /\ \E actions \in GoalActionLists :
          handler' = [handler EXCEPT !.pc = "loop", !.todo = actions]
    /\ UNCHANGED <<goals, error, goalRequests, handled, nextGoalId>>
    /\ UNCHANGED <<parseVars, psVars, cmVars, chatVars, dbVars>>

\* the body of the for loop on a create action, up to the await
HandleCreate(a) ==
    /\ goalRequests' = Append(goalRequests,
                              [op |-> "create", id |-> Null, name |-> a.name,
                               done |-> FALSE])
    /\ handler' = [handler EXCEPT !.pc = "awaitCreate"]
    /\ UNCHANGED <<goals, error, handled>>

\* the body of the for loop on an update action, up to the await or through
\* the else branch; found is goals.find's answer on the handler's goals
HandleUpdate(a, found) ==
    IF a.originalName = <<>>
    THEN /\ handler' = [handler EXCEPT !.todo = Tail(handler.todo)]
         /\ handled' = Append(handled, [op |-> "skipped", action |-> a])
         /\ UNCHANGED <<goals, error, goalRequests>>
    ELSE IF found # 0
    THEN /\ goalRequests' = Append(goalRequests,
                                   [op |-> "update", id |-> handler.goals[found].id,
                                    name |-> a.name, done |-> FALSE])
         /\ handler' = [handler EXCEPT !.pc = "awaitUpdate"]
         /\ UNCHANGED <<goals, error, handled>>
    ELSE /\ error' = ErrorOf(CouldNotFind(a.originalName))
         /\ handler' = [handler EXCEPT !.todo = Tail(handler.todo)]
         /\ handled' = Append(handled, [op |-> "notFound", action |-> a])
         /\ UNCHANGED <<goals, goalRequests>>

\* one round of the for loop over result.goalActions; after the last one the
\* handler ends
LoopStep ==
    /\ handler.op = "sendMessage"
    /\ handler.pc = "loop"
    /\ IF handler.todo = <<>>
       THEN /\ handler' = NoOp
            /\ UNCHANGED <<goals, error, goalRequests, handled>>
       ELSE IF Head(handler.todo).type = "create"
       THEN HandleCreate(Head(handler.todo))
       ELSE HandleUpdate(Head(handler.todo),
                         FindGoal(handler.goals, Head(handler.todo).originalName))
    /\ UNCHANGED nextGoalId
    /\ UNCHANGED <<parseVars, psVars, cmVars, chatVars, dbVars>>

\* apiClient.createGoal or apiClient.updateGoal of the handler has settled
RequestSettled(k) ==
    /\ goalRequests' = [goalRequests EXCEPT ![k].done = TRUE]
    /\ handler' = [handler EXCEPT !.pc = "loop", !.todo = Tail(handler.todo)]
    /\ UNCHANGED handled
    /\ UNCHANGED <<parseVars, psVars, cmVars, chatVars, dbVars>>

\* apiClient.createGoal resolves: setGoals(prev => [...prev, createdGoal])
CreateResolves ==
    /\ handler.op = "sendMessage"
    /\ handler.pc = "awaitCreate"
    /\ nextGoalId <= Len(NewGoalIds)
    /\ \E k \in Unsettled("create") :
         /\ RequestSettled(k)
         /\ goals' = Append(goals, [id |-> NewGoalIds[nextGoalId],
                                    name |-> goalRequests[k].name])
    /\ nextGoalId' = nextGoalId + 1
    /\ UNCHANGED error

\* apiClient.createGoal rejects
CreateRejects ==
    /\ handler.op = "sendMessage"
    /\ handler.pc = "awaitCreate"
    /\ \E k \in Unsettled("create") : RequestSettled(k)
    /\ error' = ErrorOf(<<"Goal was identified but failed to save. Please try again.">>)
    /\ UNCHANGED <<goals, nextGoalId>>

\* apiClient.updateGoal resolves: the goal is replaced in the list
UpdateResolves ==
    /\ handler.op = "sendMessage"
    /\ handler.pc = "awaitUpdate"
    /\ \E k \in Unsettled("update") :
         /\ RequestSettled(k)
         /\ goals' = ReplaceGoal(goals, goalRequests[k].id,
                                 [id |-> goalRequests[k].id,
                                  name |-> goalRequests[k].name])
    /\ UNCHANGED <<error, nextGoalId>>

\* apiClient.updateGoal rejects
UpdateRejects ==
    /\ handler.op = "sendMessage"
    /\ handler.pc = "awaitUpdate"
    /\ \E k \in Unsettled("update") : RequestSettled(k)
    /\ error' = ErrorOf(<<"Goal update was identified but failed to save. Please try again.">>)
    /\ UNCHANGED <<goals, nextGoalId>>

\* deleteGoal(goalId) after the confirm, up to its await; the Delete button
\* is not disabled while a message is being sent
DeleteGoal ==
    /\ Quiescent
    /\ CountOf(goalRequests, "delete") < MaxDeletes
    /\ \E k \in 1..Len(goals) :
          goalRequests' = Append(goalRequests,
                                 [op |-> "delete", id |-> goals[k].id,
                                  name |-> goals[k].name, done |-> FALSE])
    /\ UNCHANGED <<goals, error, handler, handled, nextGoalId>>
    /\ UNCHANGED <<parseVars, psVars, cmVars, chatVars, dbVars>>

\* apiClient.deleteGoal resolves
DeleteResolves ==
    /\ Quiescent
    /\ \E k \in Unsettled("delete") :
         /\ goalRequests' = [goalRequests EXCEPT ![k].done = TRUE]
         /\ goals' = WithoutGoal(goals, goalRequests[k].id)
    /\ error' = NoBanner
    /\ UNCHANGED <<handler, handled, nextGoalId>>
    /\ UNCHANGED <<parseVars, psVars, cmVars, chatVars, dbVars>>

\* apiClient.deleteGoal rejects
DeleteRejects ==
    /\ Quiescent
    /\ \E k \in Unsettled("delete") :
         goalRequests' = [goalRequests EXCEPT ![k].done = TRUE]
    /\ error' = ErrorOf(<<"Failed to delete goal: ", "Failed to delete goal">>)
    /\ UNCHANGED <<goals, handler, handled, nextGoalId>>
    /\ UNCHANGED <<parseVars, psVars, cmVars, chatVars, dbVars>>

NextGoals ==
    \/ GoalsSendMessage
    \/ SendResolves
    \/ LoopStep
    \/ CreateResolves
    \/ CreateRejects
    \/ UpdateResolves
    \/ UpdateRejects
    \/ DeleteGoal
    \/ DeleteResolves
    \/ DeleteRejects

SpecGoals == InitGoals /\ [][NextGoals]_vars

(***************************************************************************)
(* The goals page's claim                                                  *)
(***************************************************************************)
\* the handler is about to handle an update action
AtUpdate ==
    /\ handler.op = "sendMessage"
    /\ handler.pc = "loop"
    /\ handler.todo # <<>>
    /\ Head(handler.todo).type = "update"

\* C20: when the handler comes to an update action whose originalName
\* matches (in lower case, trimmed) no goal of the page's goal list, it
\* issues no request (no update, no create), leaves the goal list as it is,
\* sets the error that names the missing goal and goes on to the next action
\* without coming back to this one.
C20_MissingGoalReported ==
    [][(AtUpdate /\ FindGoal(goals, Head(handler.todo).originalName) = 0)
         => /\ goalRequests' = goalRequests
            /\ goals' = goals
            /\ error' = ErrorOf(CouldNotFind(Head(handler.todo).originalName))
            /\ handler' = [handler EXCEPT !.todo = Tail(handler.todo)]]_vars
====
